---- MODULE Spec2Model ----
(***************************************************************************)
(* Model of the job queue of seer (src-tauri/src/jobs.rs) and of the       *)
(* bitrate-analysis commands that drive it (commands/bitrate.rs).          *)
(***************************************************************************)
EXTENDS Integers, Sequences, FiniteSets, TLC

(* ------------------------------------------------------------------ *)
(* Bounds of the model                                                  *)
(* ------------------------------------------------------------------ *)
NumPaths == 3
NumHashes == 2
\* The cancel flags of one path that are alive at one time.
FlagsPerPath == 2
NumThreads == 2
NumShards == 2
NumCachePaths == 2
NumMtimes == 2
NumContents == 2
MaxTicks == 3
PipeCapacity == 1
MaxFrames == 2
MaxPoints == 3
MaxSeries == 4
MaxBlocks == 5
MaxEdits == 2
MaxOutput == 2
NumStreams == 3

Paths == 1..NumPaths
Hashes == 1..NumHashes
Slots == 1..FlagsPerPath
Threads == 1..NumThreads
Shards == 1..NumShards
CachePaths == 1..NumCachePaths
Mtimes == 1..NumMtimes
Contents == 1..NumContents

\* The content hashes a path is enqueued with: the file of path 1 is rewritten
\* between calls, the other files keep their content.
HashesOf(path) == IF path = 1 THEN Hashes ELSE {1}

\* JobQueue::new(4): the default number of parallel jobs.
DefaultMaxParallel == 4
\* set_max_parallel_jobs clamps its argument to [MinParallel, MaxParallelCap].
MinParallel == 1
MaxParallelCap == 8
\* The arguments set_max_parallel_jobs is called with in the model.
CountInputs == {0, 2, 9}

VARIABLES
    queued,        \* JobQueue.queued: VecDeque<Job>
    running,       \* JobQueue.running: DashMap<String, Job>, keyed by path
    max_parallel,  \* JobQueue.max_parallel: AtomicUsize
    cancelled,     \* the cancel flags: Job.cancelled, an Arc<AtomicBool> per job
    last,          \* the last queue call and what it returned
    workers,       \* the blocking tasks of the analysis commands, by cancel flag
    threads,       \* the calls in progress when calls interleave, by thread
    lockers,       \* the locks each thread holds and where its call stands
    probe_cache,   \* PROBE_CACHE: DashMap<String, CachedProbeResult>, by path
    files,         \* the files on disk: mtime and what ffprobe reports
    clock,         \* the monotonic clock (Instant::now), in seconds
    getters,       \* the calls of get_probe_data in progress, by thread
    rewriter,      \* remove_streams overwriting a file: where it stands
    progress,      \* Job.progress: the percentage in the slot of each job, by cancel flag
    emitted,       \* the percentage of the last bitrate-progress event of each task
    overall,       \* the stream probes of one analysis and what it returned
    parsed,        \* the last call of the parser functions: its arguments and what it returned
    probe,         \* one ffprobe child, its pipes, the threads that drain them and the caller
    disk,          \* the file at the path that is hashed (bitrate/cache.rs)
    hashed         \* the last call of compute_file_hash and the file it saw

queueVars == <<queued, running, max_parallel, cancelled, last, workers, threads,
               lockers>>

cacheVars == <<probe_cache, files, clock>>

ioVars == <<getters, rewriter, progress, emitted, overall, parsed, probe, disk, hashed>>

vars == <<queued, running, max_parallel, cancelled, last, workers, threads,
          lockers, probe_cache, files, clock, getters,
          rewriter,
          progress,
          emitted,
          overall,
          parsed,
          probe,
          disk,
          hashed>>

(* ------------------------------------------------------------------ *)
(* Jobs                                                                 *)
(* ------------------------------------------------------------------ *)
\* The absent entry of the running map.
NoJob == [path |-> 0, id |-> 0, flag |-> 0, started |-> FALSE]

\* Job::new: started_at = None. The job's cancel flag is cancelled[path][flag].
NewJob(path, file_hash, flag) ==
    [path |-> path, id |-> file_hash, flag |-> flag, started |-> FALSE]

\* Job::start: started_at = Some(now).
StartJob(job) == [job EXCEPT !.started = TRUE]

\* The queue as one value: the three fields of JobQueue and the cancel flags.
Q == [queued |-> queued, running |-> running, max |-> max_parallel,
      cancelled |-> cancelled]

\* Job::is_cancelled.
IsCancelled(q, job) == q.cancelled[job.path][job.flag]

\* Job::cancel.
SetCancelled(q, job) == [q EXCEPT !.cancelled[job.path][job.flag] = TRUE]

\* The entries of the running map.
RunningPaths(q) == {p \in Paths : q.running[p] # NoJob}

\* JobQueue::running_count: the running entries whose cancel flag is not set.
RunningCount(q) ==
    Cardinality({p \in RunningPaths(q) : ~IsCancelled(q, q.running[p])})

\* Positions of the queued jobs of a path.
QueuedPos(q, path) == {i \in 1..Len(q.queued) : q.queued[i].path = path}

\* is_queued_or_running without its scan of queued.
IsQueuedOrRunningOnlyRunning(q, path) == q.running[path] # NoJob

\* JobQueue::is_queued_or_running.
IsQueuedOrRunning(q, path) ==
    \/ q.running[path] # NoJob
    \/ QueuedPos(q, path) # {}

Min(S) == CHOOSE x \in S : \A y \in S : x <= y

\* The cancel flags of a path that jobs of the queue carry.
FlagsInQueue(q, path) ==
    (IF q.running[path] # NoJob THEN {q.running[path].flag} ELSE {})
        \cup {q.queued[i].flag : i \in QueuedPos(q, path)}

(* ------------------------------------------------------------------ *)
(* enqueue_job, run without interleaving                                *)
(* ------------------------------------------------------------------ *)
Result(kind, id) == [kind |-> kind, id |-> id]

\* The match on running.entry(path) with the count taken before it.
EnqueueInsert(q, path, file_hash, flag, current_running, max) ==
    LET job == NewJob(path, file_hash, flag)
        fresh == [q EXCEPT !.cancelled[path][flag] = FALSE]
    IN  IF q.running[path] = NoJob
        THEN IF current_running < max
             THEN [q |-> [fresh EXCEPT !.running[path] = StartJob(job)],
                   res |-> Result("Started", file_hash)]
             ELSE [q |-> [fresh EXCEPT !.queued = Append(q.queued, job)],
                   res |-> Result("Queued", file_hash)]
        ELSE [q |-> q, res |-> Result("AlreadyExists", q.running[path].id)]

EnqueueJob(q, path, file_hash, flag) ==
    IF IsQueuedOrRunning(q, path) /\ q.running[path] # NoJob
    THEN [q |-> q, res |-> Result("AlreadyExists", q.running[path].id)]
    ELSE IF IsQueuedOrRunning(q, path) /\ QueuedPos(q, path) # {}
    THEN [q |-> q,
          res |-> Result("AlreadyExists", q.queued[Min(QueuedPos(q, path))].id)]
    ELSE EnqueueInsert(q, path, file_hash, flag, RunningCount(q), q.max)

(* ------------------------------------------------------------------ *)
(* try_start_next_job, complete_job                                     *)
(* ------------------------------------------------------------------ *)
\* A try_start_next_job that promotes while running_count() <= max.
RECURSIVE TryStartNextJobInclusive(_)
TryStartNextJobInclusive(q) ==
    IF RunningCount(q) <= q.max /\ Len(q.queued) > 0
    THEN LET job == StartJob(Head(q.queued))
         IN  TryStartNextJobInclusive([q EXCEPT !.queued = Tail(q.queued),
                                                !.running[job.path] = job])
    ELSE q

RECURSIVE TryStartNextJob(_)
TryStartNextJob(q) ==
    IF RunningCount(q) < q.max /\ Len(q.queued) > 0
    THEN LET job == StartJob(Head(q.queued))
         IN  TryStartNextJob([q EXCEPT !.queued = Tail(q.queued),
                                       !.running[job.path] = job])
    ELSE q

\* running.remove(path), then try_start_next_job.
CompleteJob(q, path) ==
    TryStartNextJob([q EXCEPT !.running[path] = NoJob])

(* ------------------------------------------------------------------ *)
(* cancel_job, cancel_all_jobs, set_max_parallel_jobs                   *)
(* ------------------------------------------------------------------ *)
\* A removal that takes the front of the queue whatever the position.
RemoveFront(s, pos) == Tail(s)

\* VecDeque::remove(pos).
RemoveAt(s, pos) == SubSeq(s, 1, pos - 1) \o SubSeq(s, pos + 1, Len(s))

\* A cancel that reaches running jobs only and leaves queued alone.
CancelJobRunningOnly(q, path) ==
    IF q.running[path] # NoJob
    THEN [q |-> SetCancelled(q, q.running[path]), res |-> TRUE]
    ELSE [q |-> q, res |-> FALSE]

\* cancel_job: a running job gets its flag set and stays; a queued job is
\* taken out of queued at its position, its flag untouched.
CancelJob(q, path) ==
    IF q.running[path] # NoJob
    THEN [q |-> SetCancelled(q, q.running[path]), res |-> TRUE]
    ELSE IF QueuedPos(q, path) # {}
    THEN [q |-> [q EXCEPT !.queued = RemoveAt(q.queued, Min(QueuedPos(q, path)))],
          res |-> TRUE]
    ELSE [q |-> q, res |-> FALSE]

\* A cancel_all that clears queued and sets no flag.
CancelAllClearOnly(q) == [q EXCEPT !.queued = <<>>]

\* cancel_all_jobs: every entry of running gets its flag set, queued is
\* cleared.
CancelAllJobs(q) ==
    [q EXCEPT !.cancelled = [p \in Paths |-> [f \in Slots |->
                    IF q.running[p] # NoJob /\ q.running[p].flag = f
                    THEN TRUE ELSE q.cancelled[p][f]]],
              !.queued = <<>>]

\* get_queue_status: the paths of queued in order, the paths of the running
\* entries whose cancel flag is not set, and the limit.
GetQueueStatus(q) ==
    [queued |-> [i \in 1..Len(q.queued) |-> q.queued[i].path],
     running |-> {p \in RunningPaths(q) : ~IsCancelled(q, q.running[p])},
     max_parallel |-> q.max]

Clamp(count, lo, hi) == IF count < lo THEN lo ELSE IF count > hi THEN hi ELSE count

\* A set_max_parallel_jobs that starts at most one queued job per call, and
\* does so whether or not the limit went up.
SetMaxPromoteOne(q, count) ==
    LET stored == [q EXCEPT !.max = Clamp(count, MinParallel, MaxParallelCap)]
    IN  IF RunningCount(stored) < stored.max /\ Len(stored.queued) > 0
        THEN [stored EXCEPT !.queued = Tail(stored.queued),
                            !.running[Head(stored.queued).path] =
                                StartJob(Head(stored.queued))]
        ELSE stored

\* set_max_parallel_jobs: store the clamped count; try_start_next_job if it
\* is above the previous limit.
SetMaxParallelJobs(q, count) ==
    LET previous == q.max
        clamped == Clamp(count, MinParallel, MaxParallelCap)
        stored == [q EXCEPT !.max = clamped]
    IN  IF clamped > previous THEN TryStartNextJob(stored) ELSE stored


(* ------------------------------------------------------------------ *)
(* Calls, workers and the release of cancel flags                       *)
(* ------------------------------------------------------------------ *)
\* The queue after JobQueue::new(4).
InitQ == [queued |-> <<>>, running |-> [p \in Paths |-> NoJob],
          max |-> DefaultMaxParallel,
          cancelled |-> [p \in Paths |-> [f \in Slots |-> FALSE]]]

\* A call: its name, its arguments and what it returned.
Call(op, path, arg, res) == [op |-> op, path |-> path, arg |-> arg, res |-> res]

NoCall == Call("none", 0, 0, Result("none", 0))

\* No blocking task holds the flag.
NoWorker == [pc |-> "none", kind |-> "none", res |-> "none", removed |-> FALSE]

\* spawn_blocking: the task of a command that got its job enqueued.
Spawned(kind) == [pc |-> "start", kind |-> kind, res |-> "none", removed |-> FALSE]

\* A flag is dropped once no job of the queue carries it and the command that
\* cloned it has returned.
Dropped(q, w, path, f) ==
    /\ f \notin FlagsInQueue(q, path)
    /\ w[path][f].pc \in {"none", "done"}

FreeSlots(q, w, path) == {f \in Slots : Dropped(q, w, path, f)}

\* The flag a new job of the path gets (Arc::new in Job::new).
NewFlag(q, w, path) ==
    IF FreeSlots(q, w, path) = {} THEN 0 ELSE Min(FreeSlots(q, w, path))

\* The state after a step: the queue, the tasks and the call, with the
\* dropped flags gone.
Commit(q, w, call) ==
    \E qv \in {q} : \E wv \in {w} :
        /\ queued' = qv.queued
        /\ running' = qv.running
        /\ max_parallel' = qv.max
        /\ cancelled' = [p \in Paths |-> [f \in Slots |->
                IF Dropped(qv, wv, p, f) THEN FALSE ELSE qv.cancelled[p][f]]]
        /\ workers' = [p \in Paths |-> [f \in Slots |->
                IF Dropped(qv, wv, p, f) THEN NoWorker ELSE wv[p][f]]]
        /\ last' = call
        /\ threads' = threads
        /\ lockers' = lockers
        /\ UNCHANGED cacheVars
        /\ UNCHANGED ioVars

\* The task has emitted no bitrate-progress event.
NoEvent == -1

\* No analysis is probing streams.
NoAnalysis ==
    [pc |-> "idle", kind |-> "none", types |-> <<>>, status |-> <<>>,
     analyzed_count |-> 0, flag |-> FALSE,
     result |-> [kind |-> "none", stream_contributions |-> {}],
     interval |-> 0, duration |-> 0, intervals |-> <<>>,
     combination |-> [kind |-> "none"]]

\* No file is at the path.
NoFile == [kind |-> "missing", size |-> 0, mtime |-> 0, content |-> <<>>]

\* compute_file_hash has not been called.
NoHash == [file |-> NoFile, result |-> [kind |-> "none", data |-> <<>>], edits |-> 0]

\* No ffprobe child has been spawned.
NoProbe ==
    [pc |-> "idle", mode |-> "none", child |-> "none", success |-> FALSE,
     left |-> [out |-> 0, err |-> 0], buf |-> [out |-> 0, err |-> 0],
     reader |-> [out |-> "none", err |-> "none"], got |-> [out |-> 0, err |-> 0],
     joined |-> {}, elapsed |-> 0, checked_at |-> -1, polled_at |-> -1,
     result |-> "none"]

\* No parser function has been called.
NoParse == [op |-> "none"]

\* No call of get_probe_data in progress.
NoGetter == [pc |-> "idle", path |-> 0, current_mtime |-> 0, json_data |-> 0]

\* remove_streams is not running; done holds the paths it has rewritten and
\* invalidated, and returned for.
NoRewrite == [pc |-> "idle", path |-> 0, done |-> {}, temp |-> [mtime |-> 0, content |-> 0]]

\* No cache entry for the path.
NoEntry == [json_data |-> 0, file_mtime |-> 0, cached_at |-> 0, present |-> FALSE]

\* A file that exists, with a readable mtime.
InitFile == [mtime |-> 1, content |-> 1]

\* A thread that is in no call and holds no lock.
NoLocker == [op |-> "none", path |-> 0, pc |-> <<"idle", 0, 0>>, held |-> {}]

\* A thread that is in no call.
NoThread == [pc |-> "idle", path |-> 0, arg |-> 0, max |-> 0, cur |-> 0,
             held |-> NoJob, res |-> Result("none", 0)]

Init ==
    /\ queued = InitQ.queued
    /\ running = InitQ.running
    /\ max_parallel = InitQ.max
    /\ cancelled = InitQ.cancelled
    /\ last = NoCall
    /\ workers = [p \in Paths |-> [f \in Slots |-> NoWorker]]
    /\ threads = [t \in Threads |-> NoThread]
    /\ lockers = [t \in Threads |-> NoLocker]
    /\ probe_cache = [p \in CachePaths |-> NoEntry]
    /\ files = [p \in CachePaths |-> InitFile]
    /\ clock = 0
    /\ getters = [t \in Threads |-> NoGetter]
    /\ rewriter = NoRewrite
    /\ progress = [p \in Paths |-> [f \in Slots |-> 0]]
    /\ emitted = [p \in Paths |-> [f \in Slots |-> NoEvent]]
    /\ overall = NoAnalysis
    /\ parsed = NoParse
    /\ probe = NoProbe
    /\ disk = NoFile
    /\ hashed = NoHash

(* ------------------------------------------------------------------ *)
(* The queue driven by whole calls                                      *)
(* ------------------------------------------------------------------ *)
Enqueue(path, file_hash) ==
    /\ FreeSlots(Q, workers, path) # {} \/ IsQueuedOrRunning(Q, path)
    /\ LET r == EnqueueJob(Q, path, file_hash, NewFlag(Q, workers, path))
       IN  Commit(r.q, workers, Call("enqueue", path, file_hash, r.res))

Complete(path) ==
    Commit(CompleteJob(Q, path), workers,
           Call("complete", path, 0, Result("none", 0)))

\* The tasks after cancel_job: the task of a job taken out of queued is marked.
MarkRemoved(w, q, after, path) ==
    [w EXCEPT ![path] = [f \in Slots |->
        IF /\ f \in FlagsInQueue(q, path)
           /\ f \notin FlagsInQueue(after, path)
           /\ w[path][f].pc # "none"
        THEN [w[path][f] EXCEPT !.removed = TRUE]
        ELSE w[path][f]]]

Cancel(path) ==
    LET r == CancelJob(Q, path)
    IN  Commit(r.q, MarkRemoved(workers, Q, r.q, path),
               Call("cancel", path, 0,
                    Result(IF r.res THEN "true" ELSE "false", 0)))

CancelAll ==
    Commit(CancelAllJobs(Q), workers,
           Call("cancel_all", 0, 0, Result("none", 0)))

SetMaxParallel(count) ==
    Commit(SetMaxParallelJobs(Q, count), workers,
           Call("set_max_parallel", 0, count, Result("none", 0)))

Next ==
    \/ \E p \in Paths : \E h \in HashesOf(p) : Enqueue(p, h)
    \/ \E p \in Paths : Complete(p)
    \/ \E p \in Paths : Cancel(p)
    \/ CancelAll
    \/ \E n \in CountInputs : SetMaxParallel(n)

Spec == Init /\ [][Next]_vars

\* enqueue, complete and set_max_parallel, without cancel.
NextLimit ==
    \/ \E p \in Paths : \E h \in HashesOf(p) : Enqueue(p, h)
    \/ \E p \in Paths : Complete(p)
    \/ \E n \in CountInputs : SetMaxParallel(n)

SpecLimit == Init /\ [][NextLimit]_vars

(* ------------------------------------------------------------------ *)
(* enqueue, complete and cancel with max_parallel fixed                 *)
(* ------------------------------------------------------------------ *)
\* max_parallel as set_max_parallel_jobs left it before the first job.
InitFixed ==
    /\ queued = InitQ.queued
    /\ running = InitQ.running
    /\ max_parallel \in MinParallel..DefaultMaxParallel
    /\ cancelled = InitQ.cancelled
    /\ last = NoCall
    /\ workers = [p \in Paths |-> [f \in Slots |-> NoWorker]]
    /\ threads = [t \in Threads |-> NoThread]
    /\ lockers = [t \in Threads |-> NoLocker]
    /\ probe_cache = [p \in CachePaths |-> NoEntry]
    /\ files = [p \in CachePaths |-> InitFile]
    /\ clock = 0
    /\ getters = [t \in Threads |-> NoGetter]
    /\ rewriter = NoRewrite
    /\ progress = [p \in Paths |-> [f \in Slots |-> 0]]
    /\ emitted = [p \in Paths |-> [f \in Slots |-> NoEvent]]
    /\ overall = NoAnalysis
    /\ parsed = NoParse
    /\ probe = NoProbe
    /\ disk = NoFile
    /\ hashed = NoHash

NextFixed ==
    \/ \E p \in Paths : \E h \in HashesOf(p) : Enqueue(p, h)
    \/ \E p \in Paths : Complete(p)
    \/ \E p \in Paths : Cancel(p)

SpecFixed == InitFixed /\ [][NextFixed]_vars

(* ------------------------------------------------------------------ *)
(* The analysis commands: analyze_stream_bitrate, analyze_overall_bitrate *)
(* ------------------------------------------------------------------ *)
\* The blocking tasks that are alive at one time.
MaxTasks == 2
NumTaskPaths == 2

\* The files the analysis commands are called on.
TaskPaths == 1..NumTaskPaths

Kinds == {"stream", "overall"}

\* compute_file_hash of a path while the tasks run: the files keep their
\* content.
WorkHashes(path) == {Min(HashesOf(path))}

\* The arguments set_max_parallel_jobs is called with while tasks run.
WorkCounts == {1, 2}

\* The task's clone of its job's cancel flag: cancelled.load(SeqCst).
FlagSet(path, f) == cancelled[path][f]

\* The tasks that have been spawned and whose command has not finished.
LiveTasks(w) ==
    {pf \in Paths \X Slots : w[pf[1]][pf[2]].pc \notin {"none", "done"}}

Step(path, f, w) == [workers EXCEPT ![path][f] = w]

Returned(path, f, res) == [workers[path][f] EXCEPT !.pc = "returned", !.res = res]

Goes(path, f, pc) == [workers[path][f] EXCEPT !.pc = pc]

\* The command up to spawn_blocking: enqueue_job, then get_job_cancel_flag
\* and the task for Started and for Queued alike; AlreadyExists is an error.
Analyze(path, file_hash, kind) ==
    /\ FreeSlots(Q, workers, path) # {} \/ IsQueuedOrRunning(Q, path)
    /\ Cardinality(LiveTasks(workers)) < MaxTasks
    /\ LET f == NewFlag(Q, workers, path)
           r == EnqueueJob(Q, path, file_hash, f)
       IN  Commit(r.q,
                  IF r.res.kind = "AlreadyExists" THEN workers
                  ELSE Step(path, f, Spawned(kind)),
                  NoCall)

\* The task begins: progress 0 %. analyze_stream checks the flag before its
\* first probe; analyze_overall does not. Then the metadata probes begin.
TaskStart(path, f) ==
    /\ workers[path][f].pc = "start"
    /\ Commit(Q,
              Step(path, f,
                   IF workers[path][f].kind = "stream" /\ FlagSet(path, f)
                   THEN Returned(path, f, "cancelled")
                   ELSE Goes(path, f, "meta")),
              NoCall)

\* get_media_streams and get_file_metadata return: an error of either ends
\* the task; otherwise the flag is checked, and the frame probe begins if it
\* is not set.
TaskMeta(path, f, ok) ==
    /\ workers[path][f].pc = "meta"
    /\ Commit(Q,
              Step(path, f,
                   IF ~ok THEN Returned(path, f, "error")
                   ELSE IF FlagSet(path, f) THEN Returned(path, f, "cancelled")
                   ELSE Goes(path, f, "probe")),
              NoCall)

\* The frame probes return. analyze_stream fails on a probe error and
\* otherwise aggregates and returns its result; analyze_overall checks the
\* flag first and fails if no stream was analysed.
TaskProbe(path, f, ok) ==
    /\ workers[path][f].pc = "probe"
    /\ Commit(Q,
              Step(path, f,
                   IF workers[path][f].kind = "overall" /\ FlagSet(path, f)
                   THEN Returned(path, f, "cancelled")
                   ELSE IF ok THEN Returned(path, f, "ok")
                   ELSE Returned(path, f, "error")),
              NoCall)

\* After the task: jobs::complete_job(&path_for_cleanup); the command returns.
TaskFinish(path, f) ==
    /\ workers[path][f].pc = "returned"
    /\ Commit(CompleteJob(Q, path),
              Step(path, f, [NoWorker EXCEPT !.pc = "done",
                                !.removed = workers[path][f].removed]),
              NoCall)

WorkCancel(path) ==
    LET r == CancelJob(Q, path)
    IN  Commit(r.q, MarkRemoved(workers, Q, r.q, path), NoCall)

WorkCancelAll == Commit(CancelAllJobs(Q), workers, NoCall)

WorkSetMaxParallel(count) == Commit(SetMaxParallelJobs(Q, count), workers, NoCall)

NextWork ==
    \/ \E p \in TaskPaths : \E h \in WorkHashes(p) : \E k \in Kinds : Analyze(p, h, k)
    \/ \E p \in Paths : \E f \in Slots : TaskStart(p, f)
    \/ \E p \in Paths : \E f \in Slots : \E ok \in BOOLEAN : TaskMeta(p, f, ok)
    \/ \E p \in Paths : \E f \in Slots : \E ok \in BOOLEAN : TaskProbe(p, f, ok)
    \/ \E p \in Paths : \E f \in Slots : TaskFinish(p, f)
    \/ \E p \in Paths : WorkCancel(p)
    \/ WorkCancelAll
    \/ \E n \in WorkCounts : WorkSetMaxParallel(n)

SpecWork == Init /\ [][NextWork]_vars

(* ------------------------------------------------------------------ *)
(* commands/media.rs: bulk_remove_streams and the workers it spawns      *)
(* ------------------------------------------------------------------ *)
\* The operations of one call are at most this many, and so are the tasks
\* alive at one time.
MaxOps == 2
MaxRemovals == 3

\* The paths of the operations of a call, in order.
BulkOps == UNION {[1..n -> TaskPaths] : n \in 1..MaxOps}

\* The async task of a job, at the top of its wait loop.
RemovalTask == [pc |-> "wait", kind |-> "removal", res |-> "none", removed |-> FALSE]

\* The loop over the operations: enqueue_job, and for Started and Queued the
\* cancel flag of the job goes to jobs_to_spawn; AlreadyExists is an error of
\* the operation.
RECURSIVE BulkEnqueue(_, _, _)
BulkEnqueue(q, w, ops) ==
    IF ops = <<>> THEN [q |-> q, w |-> w]
    ELSE LET path == Head(ops)
             f == NewFlag(q, w, path)
             r == EnqueueJob(q, path, Min(HashesOf(path)), f)
         IN  IF r.res.kind = "AlreadyExists"
             THEN BulkEnqueue(q, w, Tail(ops))
             ELSE BulkEnqueue(r.q, [w EXCEPT ![path][f] = RemovalTask], Tail(ops))

\* bulk_remove_streams: every operation is enqueued, then one task is spawned
\* per job.
BulkRemoveStreams(ops) ==
    /\ \A i \in DOMAIN ops :
          FreeSlots(Q, workers, ops[i]) # {} \/ IsQueuedOrRunning(Q, ops[i])
    /\ LET r == BulkEnqueue(Q, workers, ops)
       IN  /\ Cardinality(LiveTasks(r.w)) <= MaxRemovals
           /\ Commit(r.q, r.w, NoCall)

\* One turn of the wait loop: with the flag set the task calls complete_job
\* and returns; with a job of the path in running (get_job_details) it leaves
\* the loop; otherwise it sleeps and looks again.
BulkPoll(path, f) ==
    /\ workers[path][f].pc = "wait"
    /\ IF FlagSet(path, f)
       THEN Commit(CompleteJob(Q, path),
                   Step(path, f, [NoWorker EXCEPT !.pc = "done",
                                     !.removed = workers[path][f].removed]),
                   NoCall)
       ELSE IF running[path] # NoJob
       THEN Commit(Q, Step(path, f, Goes(path, f, "work")), NoCall)
       ELSE Commit(Q, workers, NoCall)

\* The blocking closure: the flag is checked, then remove_streams runs the
\* mux tool, which ends with success or with an error.
BulkRun(path, f, ok) ==
    /\ workers[path][f].pc = "work"
    /\ Commit(Q,
              Step(path, f,
                   IF FlagSet(path, f) THEN Returned(path, f, "cancelled")
                   ELSE IF ok THEN Returned(path, f, "ok")
                   ELSE Returned(path, f, "error")),
              NoCall)

\* After the closure: jobs::complete_job(&path_clone).
BulkFinish(path, f) ==
    /\ workers[path][f].pc = "returned"
    /\ Commit(CompleteJob(Q, path),
              Step(path, f, [NoWorker EXCEPT !.pc = "done",
                                !.removed = workers[path][f].removed]),
              NoCall)

NextBulk ==
    \/ \E ops \in BulkOps : BulkRemoveStreams(ops)
    \/ \E p \in Paths : \E f \in Slots : BulkPoll(p, f)
    \/ \E p \in Paths : \E f \in Slots : \E ok \in BOOLEAN : BulkRun(p, f, ok)
    \/ \E p \in Paths : \E f \in Slots : BulkFinish(p, f)
    \/ \E p \in Paths : WorkCancel(p)
    \/ WorkCancelAll
    \/ \E n \in WorkCounts : WorkSetMaxParallel(n)

SpecBulk == Init /\ [][NextBulk]_vars

\* The spawned tasks are scheduled: the async runtime polls a task whose
\* sleep is over, and the mux tool ends.
BulkFairness ==
    \A p \in Paths : \A f \in Slots :
        /\ WF_vars(BulkPoll(p, f))
        /\ WF_vars(\E ok \in BOOLEAN : BulkRun(p, f, ok))
        /\ WF_vars(BulkFinish(p, f))

SpecBulkFair == SpecBulk /\ BulkFairness

(* ------------------------------------------------------------------ *)
(* Interleaved calls: enqueue_job and set_max_parallel_jobs, one access  *)
(* of the shared queue per step                                          *)
(* ------------------------------------------------------------------ *)
\* The arguments set_max_parallel_jobs is called with while calls interleave.
ConcCounts == {1, 2}

\* The Arc<AtomicBool> of the job a thread creates.
ThreadFlag(t) == ((t - 1) % FlagsPerPath) + 1

InCall(t) == threads[t].pc \notin {"idle", "ret"}

At(t, pc) == [threads[t] EXCEPT !.pc = pc]

\* The call returns: its locals are gone, its result is with the caller.
Ret(t, kind, id) ==
    [NoThread EXCEPT !.pc = "ret", !.path = threads[t].path,
                     !.res = Result(kind, id)]

ConcCommit(q, t, th) ==
    /\ queued' = q.queued
    /\ running' = q.running
    /\ max_parallel' = q.max
    /\ threads' = [threads EXCEPT ![t] = th]
    /\ UNCHANGED <<cancelled, last, workers, lockers>>
    /\ UNCHANGED cacheVars
    /\ UNCHANGED ioVars

\* A thread enters enqueue_job(path, file_hash, _).
BeginEnqueue(t, path, file_hash) ==
    /\ ~InCall(t)
    /\ ConcCommit(Q, t, [NoThread EXCEPT !.pc = "contains_key", !.path = path,
                                         !.arg = file_hash])

\* is_queued_or_running: self.running.contains_key(path).
EnqContainsKey(t) ==
    /\ threads[t].pc = "contains_key"
    /\ ConcCommit(Q, t, IF running[threads[t].path] # NoJob
                        THEN At(t, "get") ELSE At(t, "any"))

\* is_queued_or_running: queued.lock(), queued.iter().any(..).
EnqAny(t) ==
    /\ threads[t].pc = "any"
    /\ ConcCommit(Q, t, IF QueuedPos(Q, threads[t].path) # {}
                        THEN At(t, "get") ELSE At(t, "new"))

\* JOB_QUEUE.running.get(path): AlreadyExists with the running job's id.
EnqGet(t) ==
    /\ threads[t].pc = "get"
    /\ ConcCommit(Q, t, IF running[threads[t].path] # NoJob
                        THEN Ret(t, "AlreadyExists", running[threads[t].path].id)
                        ELSE At(t, "find"))

\* queued.lock(), queued.iter().find(..): AlreadyExists with the queued
\* job's id, or on to the creation of the job if it is no longer there.
EnqFind(t) ==
    /\ threads[t].pc = "find"
    /\ ConcCommit(Q, t, IF QueuedPos(Q, threads[t].path) # {}
                        THEN Ret(t, "AlreadyExists",
                                 queued[Min(QueuedPos(Q, threads[t].path))].id)
                        ELSE At(t, "new"))

\* Job::new, then max_parallel.load(SeqCst).
EnqNew(t) ==
    /\ threads[t].pc = "new"
    /\ ConcCommit(Q, t, [threads[t] EXCEPT !.pc = "count", !.max = max_parallel,
                            !.held = NewJob(threads[t].path, threads[t].arg,
                                            ThreadFlag(t))])

\* let current_running = JOB_QUEUE.running_count().
EnqCount(t) ==
    /\ threads[t].pc = "count"
    /\ ConcCommit(Q, t, [threads[t] EXCEPT !.pc = "entry", !.cur = RunningCount(Q)])

\* match JOB_QUEUE.running.entry(path): Occupied is AlreadyExists; Vacant
\* with capacity inserts the started job; Vacant without drops the entry.
EnqEntry(t) ==
    LET th == threads[t]
    IN  /\ th.pc = "entry"
        /\ IF running[th.path] # NoJob
           THEN ConcCommit(Q, t, Ret(t, "AlreadyExists", running[th.path].id))
           ELSE IF th.cur < th.max
           THEN ConcCommit([Q EXCEPT !.running[th.path] = StartJob(th.held)], t,
                           Ret(t, "Started", th.held.id))
           ELSE ConcCommit(Q, t, At(t, "push_back"))

\* queued.lock(), queued.push_back(job).
EnqPushBack(t) ==
    LET th == threads[t]
    IN  /\ th.pc = "push_back"
        /\ ConcCommit([Q EXCEPT !.queued = Append(queued, th.held)], t,
                      Ret(t, "Queued", th.held.id))

\* A thread enters set_max_parallel_jobs(count): previous is loaded.
BeginSetMax(t, count) ==
    /\ ~InCall(t)
    /\ ConcCommit(Q, t, [NoThread EXCEPT !.pc = "store", !.arg = count,
                                         !.max = max_parallel])

\* max_parallel.store(clamped); try_start_next_job if the limit went up.
SetStore(t) ==
    LET clamped == Clamp(threads[t].arg, MinParallel, MaxParallelCap)
    IN  /\ threads[t].pc = "store"
        /\ ConcCommit([Q EXCEPT !.max = clamped], t,
                      IF clamped > threads[t].max THEN At(t, "load")
                      ELSE Ret(t, "unit", 0))

\* try_start_next_job: let max = max_parallel.load(SeqCst).
TryLoad(t) ==
    /\ threads[t].pc = "load"
    /\ ConcCommit(Q, t, [threads[t] EXCEPT !.pc = "while", !.max = max_parallel])

\* while JOB_QUEUE.running_count() < max.
TryWhile(t) ==
    /\ threads[t].pc = "while"
    /\ ConcCommit(Q, t, IF RunningCount(Q) < threads[t].max
                        THEN At(t, "pop_front") ELSE Ret(t, "unit", 0))

\* queued.lock(), queued.pop_front(), job.start(), drop(queued); break if
\* the queue is empty.
TryPopFront(t) ==
    /\ threads[t].pc = "pop_front"
    /\ IF Len(queued) > 0
       THEN ConcCommit([Q EXCEPT !.queued = Tail(queued)], t,
                       [threads[t] EXCEPT !.pc = "insert",
                                          !.held = StartJob(Head(queued))])
       ELSE ConcCommit(Q, t, Ret(t, "unit", 0))

\* JOB_QUEUE.running.insert(path, job), outside the queue lock.
TryInsert(t) ==
    LET th == threads[t]
    IN  /\ th.pc = "insert"
        /\ ConcCommit([Q EXCEPT !.running[th.held.path] = th.held], t,
                      [th EXCEPT !.pc = "while", !.held = NoJob])

NextConc ==
    \/ \E t \in Threads : \E p \in Paths : \E h \in WorkHashes(p) : BeginEnqueue(t, p, h)
    \/ \E t \in Threads : EnqContainsKey(t)
    \/ \E t \in Threads : EnqAny(t)
    \/ \E t \in Threads : EnqGet(t)
    \/ \E t \in Threads : EnqFind(t)
    \/ \E t \in Threads : EnqNew(t)
    \/ \E t \in Threads : EnqCount(t)
    \/ \E t \in Threads : EnqEntry(t)
    \/ \E t \in Threads : EnqPushBack(t)
    \/ \E t \in Threads : \E n \in ConcCounts : BeginSetMax(t, n)
    \/ \E t \in Threads : SetStore(t)
    \/ \E t \in Threads : TryLoad(t)
    \/ \E t \in Threads : TryWhile(t)
    \/ \E t \in Threads : TryPopFront(t)
    \/ \E t \in Threads : TryInsert(t)

SpecConc == Init /\ [][NextConc]_vars

\* Calls of enqueue_job alone, interleaved, with max_parallel as
\* set_max_parallel_jobs left it before the first job.
NextEnqueue ==
    \/ \E t \in Threads : \E p \in Paths : \E h \in WorkHashes(p) : BeginEnqueue(t, p, h)
    \/ \E t \in Threads : EnqContainsKey(t)
    \/ \E t \in Threads : EnqAny(t)
    \/ \E t \in Threads : EnqGet(t)
    \/ \E t \in Threads : EnqFind(t)
    \/ \E t \in Threads : EnqNew(t)
    \/ \E t \in Threads : EnqCount(t)
    \/ \E t \in Threads : EnqEntry(t)
    \/ \E t \in Threads : EnqPushBack(t)

SpecEnqueue == InitFixed /\ [][NextEnqueue]_vars

(* ------------------------------------------------------------------ *)
(* The locks of the job queue: what each call locks, and in which order  *)
(* ------------------------------------------------------------------ *)
\* The queued mutex, the shard locks of the running map, and the progress
\* mutex of the job of a path.
QueuedMutex == <<"queued", 0>>

Shard(s) == <<"shard", s>>

Progress(path) == <<"progress", path>>

\* The shard of the running map a path hashes to.
ShardOf(path) == ((path - 1) % NumShards) + 1

\* A step of a call: at from, lock (exclusively), read-lock or unlock a lock,
\* or go on without one, and continue at to.
Edge(from, act, lock, to) == [from |-> from, act |-> act, lock |-> lock, to |-> to]

Idle == <<"idle", 0, 0>>

\* DashMap::iter, len: the shards are read-locked one after the other, each
\* released before the next; afterwards the call continues at one of nexts.
IterShards(label, nexts) ==
    {Edge(<<label, s, 0>>, "read", Shard(s), <<label, s, 1>>) : s \in Shards}
    \cup {Edge(<<label, s, 1>>, "unlock", Shard(s), <<label, s + 1, 0>>) :
             s \in Shards \ {NumShards}}
    \cup {Edge(<<label, NumShards, 1>>, "unlock", Shard(NumShards), n) : n \in nexts}

\* One lock taken and released, the call continuing at one of nexts.
Locked(label, act, lock, nexts) ==
    {Edge(<<label, 0, 0>>, act, lock, <<label, 0, 1>>)}
    \cup {Edge(<<label, 0, 1>>, "unlock", lock, n) : n \in nexts}

\* try_start_next_job: running_count for the log, then the loop: running_count,
\* queued.lock(), pop_front, drop(queued), running.insert.
TryStartLocks ==
    IterShards("running_count", {<<"while", 1, 0>>})
    \cup IterShards("while", {<<"pop_front", 0, 0>>, Idle})
    \cup Locked("pop_front", "lock", QueuedMutex, {<<"insert", 0, 0>>, Idle})
    \cup {Edge(<<"insert", 0, 0>>, "lock", Shard(s), <<"insert", s, 1>>) : s \in Shards}
    \cup {Edge(<<"insert", s, 1>>, "unlock", Shard(s), <<"while", 1, 0>>) : s \in Shards}

\* enqueue_job with the entry kept across queued.lock(): the drop(entry) of
\* the branch without capacity left out.
EnqueueLocksKeepEntry(path) ==
    Locked("contains_key", "read", Shard(ShardOf(path)),
           {<<"get", 0, 0>>, <<"any", 0, 0>>})
    \cup Locked("any", "lock", QueuedMutex, {<<"get", 0, 0>>, <<"count", 1, 0>>})
    \cup Locked("get", "read", Shard(ShardOf(path)), {Idle, <<"find", 0, 0>>})
    \cup Locked("find", "lock", QueuedMutex, {Idle, <<"count", 1, 0>>})
    \cup IterShards("count", {<<"entry", 0, 0>>})
    \cup {Edge(<<"entry", 0, 0>>, "lock", Shard(ShardOf(path)), <<"entry", 0, 1>>),
          Edge(<<"entry", 0, 1>>, "unlock", Shard(ShardOf(path)), Idle),
          Edge(<<"entry", 0, 1>>, "lock", QueuedMutex, <<"push_back", 0, 1>>),
          Edge(<<"push_back", 0, 1>>, "unlock", QueuedMutex, <<"entry", 0, 2>>),
          Edge(<<"entry", 0, 2>>, "unlock", Shard(ShardOf(path)), Idle)}

\* enqueue_job: is_queued_or_running (contains_key, then the scan of queued),
\* the lookup of the existing job, running_count, running.entry(path), and for
\* a vacant entry without capacity drop(entry), then queued.lock(), push_back.
EnqueueLocks(path) ==
    Locked("contains_key", "read", Shard(ShardOf(path)),
           {<<"get", 0, 0>>, <<"any", 0, 0>>})
    \cup Locked("any", "lock", QueuedMutex, {<<"get", 0, 0>>, <<"count", 1, 0>>})
    \cup Locked("get", "read", Shard(ShardOf(path)), {Idle, <<"find", 0, 0>>})
    \cup Locked("find", "lock", QueuedMutex, {Idle, <<"count", 1, 0>>})
    \cup IterShards("count", {<<"entry", 0, 0>>})
    \cup Locked("entry", "lock", Shard(ShardOf(path)), {Idle, <<"push_back", 0, 0>>})
    \cup Locked("push_back", "lock", QueuedMutex, {Idle})

\* complete_job: running.remove(path), then try_start_next_job.
CompleteLocks(path) ==
    Locked("remove", "lock", Shard(ShardOf(path)), {<<"running_count", 1, 0>>})
    \cup TryStartLocks

\* cancel_job: running.get(path); if absent, queued.lock() and the removal.
CancelLocks(path) ==
    Locked("get", "read", Shard(ShardOf(path)), {Idle, <<"position", 0, 0>>})
    \cup Locked("position", "lock", QueuedMutex, {Idle})

\* cancel_all_jobs: running.len(), running.iter() setting the flags, then
\* queued.lock() and clear.
CancelAllLocks ==
    IterShards("len", {<<"iter", 1, 0>>})
    \cup IterShards("iter", {<<"clear", 0, 0>>})
    \cup Locked("clear", "lock", QueuedMutex, {Idle})

\* set_max_parallel_jobs: load and store of the atomic, then
\* try_start_next_job if the limit went up.
SetMaxLocks ==
    {Edge(<<"store", 0, 0>>, "skip", QueuedMutex, n) :
        n \in {Idle, <<"running_count", 1, 0>>}}
    \cup TryStartLocks

\* get_queue_status: queued.lock(), held to the end of the call; get_progress
\* of each queued job; running.iter() with get_progress of each entry.
StatusLocks ==
    {Edge(<<"queued", 0, 0>>, "lock", QueuedMutex, <<"queued", 0, 1>>),
     Edge(<<"queued", 0, 1>>, "skip", QueuedMutex, <<"iter", 1, 0>>),
     Edge(<<"return", 0, 0>>, "unlock", QueuedMutex, Idle)}
    \cup {Edge(<<"queued", 0, 1>>, "lock", Progress(p), <<"get_progress", 0, p>>) :
             p \in Paths}
    \cup {Edge(<<"get_progress", 0, p>>, "unlock", Progress(p), <<"queued", 0, 1>>) :
             p \in Paths}
    \cup IterShards("iter", {<<"return", 0, 0>>})
    \cup {Edge(<<"iter", ShardOf(p), 1>>, "lock", Progress(p),
               <<"get_progress", ShardOf(p), p>>) : p \in Paths}
    \cup {Edge(<<"get_progress", ShardOf(p), p>>, "unlock", Progress(p),
               <<"iter", ShardOf(p), 1>>) : p \in Paths}

\* get_job_cancel_flag: running.get(path); if absent, queued.lock() and find.
CancelFlagLocks(path) ==
    Locked("get", "read", Shard(ShardOf(path)), {Idle, <<"find", 0, 0>>})
    \cup Locked("find", "lock", QueuedMutex, {Idle})

\* update_job_progress: running.get(path) and, under that reference,
\* job.update_progress, which locks the progress mutex.
ProgressLocks(path) ==
    {Edge(<<"get", 0, 0>>, "read", Shard(ShardOf(path)), <<"get", 0, 1>>),
     Edge(<<"get", 0, 1>>, "unlock", Shard(ShardOf(path)), Idle),
     Edge(<<"get", 0, 1>>, "lock", Progress(path), <<"update_progress", 0, 1>>),
     Edge(<<"update_progress", 0, 1>>, "unlock", Progress(path), <<"get", 0, 2>>),
     Edge(<<"get", 0, 2>>, "unlock", Shard(ShardOf(path)), Idle)}

LockOps == {"enqueue", "complete", "cancel", "cancel_all", "set_max_parallel",
            "get_queue_status", "get_cancel_flag", "update_progress"}

\* The calls that take a path.
PathOps == {"enqueue", "complete", "cancel", "get_cancel_flag", "update_progress"}

\* The steps of a call.
Program(op, path) ==
    CASE op = "enqueue" -> EnqueueLocks(path)
      [] op = "complete" -> CompleteLocks(path)
      [] op = "cancel" -> CancelLocks(path)
      [] op = "cancel_all" -> CancelAllLocks
      [] op = "set_max_parallel" -> SetMaxLocks
      [] op = "get_queue_status" -> StatusLocks
      [] op = "get_cancel_flag" -> CancelFlagLocks(path)
      [] op = "update_progress" -> ProgressLocks(path)
      [] OTHER -> {}

\* Where a call begins.
Entry(op) ==
    CASE op = "enqueue" -> <<"contains_key", 0, 0>>
      [] op = "complete" -> <<"remove", 0, 0>>
      [] op = "cancel" -> <<"get", 0, 0>>
      [] op = "cancel_all" -> <<"len", 1, 0>>
      [] op = "set_max_parallel" -> <<"store", 0, 0>>
      [] op = "get_queue_status" -> <<"queued", 0, 0>>
      [] op = "get_cancel_flag" -> <<"get", 0, 0>>
      [] op = "update_progress" -> <<"get", 0, 0>>
      [] OTHER -> Idle

\* The steps a thread can take next, lock permitting or not.
NextEdges(t) ==
    {e \in Program(lockers[t].op, lockers[t].path) : e.from = lockers[t].pc}

\* A mutex or a write lock is free when no other thread holds the lock; a
\* read lock when no other thread holds it for writing.
Available(t, act, lock) ==
    \A u \in Threads \ {t} :
        /\ <<lock, "lock">> \notin lockers[u].held
        /\ act = "lock" => <<lock, "read">> \notin lockers[u].held

CanTake(t, e) == e.act \in {"lock", "read"} => Available(t, e.act, e.lock)

LockCommit(t, l) ==
    /\ lockers' = [lockers EXCEPT ![t] = l]
    /\ UNCHANGED <<queued, running, max_parallel, cancelled, last, workers, threads>>
    /\ UNCHANGED cacheVars
    /\ UNCHANGED ioVars

BeginCall(t, op, path) ==
    /\ lockers[t].pc = Idle
    /\ op \in PathOps <=> path # 0
    /\ LockCommit(t, [op |-> op, path |-> path, pc |-> Entry(op), held |-> {}])

\* Mutex::lock, RwLock::write, RwLock::read: the thread waits until the lock
\* is free.
Acquire(t) ==
    \E e \in NextEdges(t) :
        /\ e.act \in {"lock", "read"}
        /\ Available(t, e.act, e.lock)
        /\ LockCommit(t, [lockers[t] EXCEPT !.pc = e.to,
                             !.held = @ \cup {<<e.lock, e.act>>}])

\* The guard or reference goes out of scope or is dropped; a call that has
\* reached its end is over.
Release(t) ==
    \E e \in NextEdges(t) :
        /\ e.act = "unlock"
        /\ LET held == lockers[t].held \ {<<e.lock, "lock">>, <<e.lock, "read">>}
           IN  LockCommit(t, IF e.to = Idle THEN NoLocker
                             ELSE [lockers[t] EXCEPT !.pc = e.to, !.held = held])

\* A step that takes no lock.
Proceed(t) ==
    \E e \in NextEdges(t) :
        /\ e.act = "skip"
        /\ LockCommit(t, IF e.to = Idle THEN NoLocker
                         ELSE [lockers[t] EXCEPT !.pc = e.to])

NextLock ==
    \/ \E t \in Threads : \E op \in LockOps : \E p \in Paths \cup {0} : BeginCall(t, op, p)
    \/ \E t \in Threads : Acquire(t)
    \/ \E t \in Threads : Release(t)
    \/ \E t \in Threads : Proceed(t)

SpecLock == Init /\ [][NextLock]_vars

(* ------------------------------------------------------------------ *)
(* The ffprobe cache: media/probe_cache.rs                               *)
(* ------------------------------------------------------------------ *)
\* CACHE_MAX_AGE, in seconds.
CacheMaxAge == 300

\* The clock moves in steps of half the maximum age.
TickSeconds == CacheMaxAge \div 2

\* get_file_mtime returned None: the file is missing or its mtime unreadable.
NoMtime == 0

\* No file: ffprobe has nothing to report.
NoContent == 0

\* get_file_mtime.
GetFileMtime(path) == files[path].mtime

\* is_cache_valid: the entry is not older than CACHE_MAX_AGE, and the stored
\* and the current mtime do not both exist and differ.
IsCacheValid(entry, current_mtime, now) ==
    IF now - entry.cached_at > CacheMaxAge THEN FALSE
    ELSE ~(entry.file_mtime # NoMtime /\ current_mtime # NoMtime
           /\ entry.file_mtime # current_mtime)

\* run_ffprobe and the parse of its output: the content of the file, or a
\* failure; a file that is not there cannot be probed.
RunFFprobe(path, ok) ==
    IF ok /\ files[path].content # NoContent THEN files[path].content ELSE NoContent

\* get_probe_data: the cache after the call, what the call returned, and how
\* often it ran ffprobe.
GetProbeData(cache, path, ok) ==
    LET current_mtime == GetFileMtime(path)
        entry == cache[path]
        json_data == RunFFprobe(path, ok)
    IN  IF entry.present /\ IsCacheValid(entry, current_mtime, clock)
        THEN [cache |-> cache, kind |-> "ok", data |-> entry.json_data,
              was_cached |-> TRUE, probes |-> 0]
        ELSE IF json_data = NoContent
        THEN [cache |-> cache, kind |-> "error", data |-> NoContent,
              was_cached |-> FALSE, probes |-> 1]
        ELSE [cache |-> [cache EXCEPT ![path] =
                            [json_data |-> json_data, file_mtime |-> current_mtime,
                             cached_at |-> clock, present |-> TRUE]],
              kind |-> "ok", data |-> json_data, was_cached |-> FALSE, probes |-> 1]

CacheCommit(cache, f, now) ==
    /\ probe_cache' = cache
    /\ files' = f
    /\ clock' = now
    /\ UNCHANGED queueVars
    /\ UNCHANGED ioVars

\* A call of get_probe_data; ok says whether ffprobe and the parse succeed.
Get(path, ok) == CacheCommit(GetProbeData(probe_cache, path, ok).cache, files, clock)

\* The file is written: new content, and an mtime that may be the old one
\* (a write within the same second) or unreadable.
ModifyFile(path, mtime, content) ==
    CacheCommit(probe_cache,
                [files EXCEPT ![path] = [mtime |-> mtime, content |-> content]],
                clock)

\* The file is deleted.
DeleteFile(path) ==
    CacheCommit(probe_cache,
                [files EXCEPT ![path] = [mtime |-> NoMtime, content |-> NoContent]],
                clock)

\* invalidate_cache.
Invalidate(path) ==
    CacheCommit([probe_cache EXCEPT ![path] = NoEntry], files, clock)

\* clear_cache.
ClearCache == CacheCommit([p \in CachePaths |-> NoEntry], files, clock)

\* Time passes.
Tick ==
    /\ clock < MaxTicks * TickSeconds
    /\ CacheCommit(probe_cache, files, clock + TickSeconds)

NextCache ==
    \/ \E p \in CachePaths : \E ok \in BOOLEAN : Get(p, ok)
    \/ \E p \in CachePaths : \E m \in Mtimes \cup {NoMtime} : \E c \in Contents :
          ModifyFile(p, m, c)
    \/ \E p \in CachePaths : DeleteFile(p)
    \/ \E p \in CachePaths : Invalidate(p)
    \/ ClearCache
    \/ Tick

SpecCache == Init /\ [][NextCache]_vars

(* ------------------------------------------------------------------ *)
(* get_probe_data, one access of the file or of the cache per step, while *)
(* remove_streams overwrites a file                                       *)
(* ------------------------------------------------------------------ *)

RewriteCommit(cache, f, g, r) ==
    /\ probe_cache' = cache
    /\ files' = f
    /\ getters' = g
    /\ rewriter' = r
    /\ UNCHANGED <<clock, progress, emitted, overall, parsed, probe, disk, hashed>>
    /\ UNCHANGED queueVars

\* get_probe_data returns, with a value or an error.
GetReturn(t) == [getters EXCEPT ![t] = NoGetter]

\* let current_mtime = get_file_mtime(path);
GetMtime(t, path) ==
    /\ getters[t].pc = "idle"
    /\ RewriteCommit(probe_cache, files,
                     [getters EXCEPT ![t] = [pc |-> "lookup", path |-> path,
                                             current_mtime |-> GetFileMtime(path),
                                             json_data |-> 0]],
                     rewriter)

\* if let Some(entry) = PROBE_CACHE.get(path): a valid entry is returned,
\* anything else goes on to ffprobe.
GetLookup(t) ==
    /\ getters[t].pc = "lookup"
    /\ LET g == getters[t]
           entry == probe_cache[g.path]
       IN  IF entry.present /\ IsCacheValid(entry, g.current_mtime, clock)
           THEN RewriteCommit(probe_cache, files, GetReturn(t), rewriter)
           ELSE RewriteCommit(probe_cache, files,
                              [getters EXCEPT ![t].pc = "probe"], rewriter)

\* run_ffprobe(path)? and the parse: what the file holds now, or an error.
GetRunFFprobe(t, ok) ==
    /\ getters[t].pc = "probe"
    /\ LET json_data == RunFFprobe(getters[t].path, ok)
       IN  IF json_data = NoContent
           THEN RewriteCommit(probe_cache, files, GetReturn(t), rewriter)
           ELSE RewriteCommit(probe_cache, files,
                              [getters EXCEPT ![t].pc = "insert",
                                              ![t].json_data = json_data],
                              rewriter)

\* PROBE_CACHE.insert(path, entry), with the mtime read at the start.
GetInsert(t) ==
    /\ getters[t].pc = "insert"
    /\ LET g == getters[t]
       IN  RewriteCommit([probe_cache EXCEPT ![g.path] =
                             [json_data |-> g.json_data,
                              file_mtime |-> g.current_mtime,
                              cached_at |-> clock, present |-> TRUE]],
                         files, GetReturn(t), rewriter)

\* remove_streams with overwrite, after ffmpeg wrote the temp file, whose
\* mtime in seconds is that of the original or a later one:
\* fs::remove_file(&path).
RewriteRemove(path, mtime) ==
    /\ rewriter.pc = "idle"
    /\ files[path].content # NoContent
    /\ files[path].content < NumContents
    /\ mtime >= files[path].mtime
    /\ RewriteCommit(probe_cache,
                     [files EXCEPT ![path] = [mtime |-> NoMtime, content |-> NoContent]],
                     getters,
                     [rewriter EXCEPT !.pc = "removed", !.path = path,
                                      !.done = @ \ {path},
                                      !.temp = [mtime |-> mtime,
                                                content |-> files[path].content + 1]])

\* fs::rename(&temp_path, &path): the path now holds what ffmpeg wrote.
RewriteRename ==
    /\ rewriter.pc = "removed"
    /\ RewriteCommit(probe_cache, [files EXCEPT ![rewriter.path] = rewriter.temp],
                     getters, [rewriter EXCEPT !.pc = "renamed"])

\* probe_cache::invalidate_cache(&path), and remove_streams returns.
RewriteInvalidate ==
    /\ rewriter.pc = "renamed"
    /\ RewriteCommit([probe_cache EXCEPT ![rewriter.path] = NoEntry], files, getters,
                     [NoRewrite EXCEPT !.done = rewriter.done \cup {rewriter.path}])

NextRewrite ==
    \/ \E t \in Threads : \E p \in CachePaths : GetMtime(t, p)
    \/ \E t \in Threads : GetLookup(t)
    \/ \E t \in Threads : \E ok \in BOOLEAN : GetRunFFprobe(t, ok)
    \/ \E t \in Threads : GetInsert(t)
    \/ \E p \in CachePaths : \E m \in Mtimes : RewriteRemove(p, m)
    \/ RewriteRename
    \/ RewriteInvalidate

SpecRewrite == Init /\ [][NextRewrite]_vars

(* ------------------------------------------------------------------ *)
(* The analysis commands, one progress event per step                   *)
(* ------------------------------------------------------------------ *)

\* The stages of the blocking task and the percentage emit_progress is
\* called with when the stage is reached.
StagePercent(kind, stage) ==
    CASE stage = "start" -> 0
      [] stage = "streams" -> IF kind = "stream" THEN 10 ELSE 5
      [] stage = "metadata" -> IF kind = "stream" THEN 20 ELSE 10
      [] stage = "probe" -> IF kind = "stream" THEN 80 ELSE 85
      [] stage = "aggregate" -> 90
      [] stage = "contributions" -> 95
      [] stage = "statistics" -> 100

\* update_job_progress(path, _): the slot of the job that is in running
\* under the path, if there is one.
UpdateJobProgress(slots, path, percentage) ==
    IF running[path] = NoJob THEN slots
    ELSE [slots EXCEPT ![path][running[path].flag] = percentage]

\* The state after a step of a task or a call of the queue: the slots of
\* the jobs that are gone are gone, as are the flags nobody holds.
ProgressCommit(q, w, slots, events) ==
    \E qv \in {q} : \E wv \in {w} :
        /\ queued' = qv.queued
        /\ running' = qv.running
        /\ max_parallel' = qv.max
        /\ cancelled' = [p \in Paths |-> [f \in Slots |->
                IF Dropped(qv, wv, p, f) THEN FALSE ELSE qv.cancelled[p][f]]]
        /\ workers' = [p \in Paths |-> [f \in Slots |->
                IF Dropped(qv, wv, p, f) THEN NoWorker ELSE wv[p][f]]]
        /\ progress' = [p \in Paths |-> [f \in Slots |->
                IF f \in FlagsInQueue(qv, p) THEN slots[p][f] ELSE 0]]
        /\ emitted' = [p \in Paths |-> [f \in Slots |->
                IF Dropped(qv, wv, p, f) THEN NoEvent ELSE events[p][f]]]
        /\ UNCHANGED <<last, threads, lockers, getters, rewriter, overall, parsed, probe, disk, hashed>>
        /\ UNCHANGED cacheVars

\* emit_progress(_, _, percentage, _) by the task, which then goes on.
EmitProgress(path, f, stage, w) ==
    LET percentage == StagePercent(workers[path][f].kind, stage)
    IN  ProgressCommit(Q, Step(path, f, w),
                       UpdateJobProgress(progress, path, percentage),
                       [emitted EXCEPT ![path][f] = percentage])

\* The task ends without a further event.
EndTask(path, f, res) ==
    ProgressCommit(Q, Step(path, f, Returned(path, f, res)), progress, emitted)

\* The command up to spawn_blocking.
ProgAnalyze(path, file_hash, kind) ==
    /\ FreeSlots(Q, workers, path) # {} \/ IsQueuedOrRunning(Q, path)
    /\ Cardinality(LiveTasks(workers)) < MaxTasks
    /\ LET f == NewFlag(Q, workers, path)
           r == EnqueueJob(Q, path, file_hash, f)
       IN  ProgressCommit(r.q,
                          IF r.res.kind = "AlreadyExists" THEN workers
                          ELSE Step(path, f, Spawned(kind)),
                          progress, emitted)

\* emit_progress(0, ..), and the task is at its first step.
ProgStart(path, f) ==
    /\ workers[path][f].pc = "start"
    /\ EmitProgress(path, f, "start", Goes(path, f, "streams"))

\* analyze_stream checks the flag; get_media_streams returns; the next
\* event.
ProgStreams(path, f, ok) ==
    /\ workers[path][f].pc = "streams"
    /\ IF workers[path][f].kind = "stream" /\ FlagSet(path, f)
       THEN EndTask(path, f, "cancelled")
       ELSE IF ~ok THEN EndTask(path, f, "error")
       ELSE EmitProgress(path, f, "streams", Goes(path, f, "metadata"))

\* get_file_metadata returns and the duration is read; the flag is checked;
\* the next event.
ProgMetadata(path, f, ok) ==
    /\ workers[path][f].pc = "metadata"
    /\ IF ~ok THEN EndTask(path, f, "error")
       ELSE IF FlagSet(path, f) THEN EndTask(path, f, "cancelled")
       ELSE EmitProgress(path, f, "metadata", Goes(path, f, "probe"))

\* The frame probes return. analyze_stream fails on a probe error and
\* otherwise emits the next event; analyze_overall checks the flag and emits
\* the next event before it looks at the number of streams analysed.
ProgProbe(path, f, ok) ==
    /\ workers[path][f].pc = "probe"
    /\ IF workers[path][f].kind = "stream"
       THEN IF ~ok THEN EndTask(path, f, "error")
            ELSE EmitProgress(path, f, "probe", Goes(path, f, "aggregate"))
       ELSE IF FlagSet(path, f) THEN EndTask(path, f, "cancelled")
            ELSE EmitProgress(path, f, "probe",
                              IF ok THEN Goes(path, f, "aggregate")
                              ELSE Returned(path, f, "error"))

\* The event before the aggregation.
ProgAggregate(path, f) ==
    /\ workers[path][f].pc = "aggregate"
    /\ EmitProgress(path, f, "aggregate",
                    IF workers[path][f].kind = "stream"
                    THEN Goes(path, f, "statistics")
                    ELSE Goes(path, f, "contributions"))

\* analyze_overall: the event after the stream contributions.
ProgContributions(path, f) ==
    /\ workers[path][f].pc = "contributions"
    /\ EmitProgress(path, f, "contributions", Goes(path, f, "statistics"))

\* The last event, and the task returns its result.
ProgStatistics(path, f) ==
    /\ workers[path][f].pc = "statistics"
    /\ EmitProgress(path, f, "statistics", Returned(path, f, "ok"))

\* After the task: jobs::complete_job(&path_for_cleanup); the command returns.
ProgFinish(path, f) ==
    /\ workers[path][f].pc = "returned"
    /\ ProgressCommit(CompleteJob(Q, path),
                      Step(path, f, [NoWorker EXCEPT !.pc = "done",
                                        !.removed = workers[path][f].removed]),
                      progress, emitted)

ProgCancel(path) ==
    LET r == CancelJob(Q, path)
    IN  ProgressCommit(r.q, MarkRemoved(workers, Q, r.q, path), progress, emitted)

\* The argument set_max_parallel_jobs is called with while the events are
\* followed: one job at a time.
ProgCounts == {MinParallel}

ProgSetMaxParallel(count) ==
    ProgressCommit(SetMaxParallelJobs(Q, count), workers, progress, emitted)

NextProgress ==
    \/ \E p \in TaskPaths : \E h \in WorkHashes(p) : \E k \in Kinds : ProgAnalyze(p, h, k)
    \/ \E p \in Paths : \E f \in Slots : ProgStart(p, f)
    \/ \E p \in Paths : \E f \in Slots : \E ok \in BOOLEAN : ProgStreams(p, f, ok)
    \/ \E p \in Paths : \E f \in Slots : \E ok \in BOOLEAN : ProgMetadata(p, f, ok)
    \/ \E p \in Paths : \E f \in Slots : \E ok \in BOOLEAN : ProgProbe(p, f, ok)
    \/ \E p \in Paths : \E f \in Slots : ProgAggregate(p, f)
    \/ \E p \in Paths : \E f \in Slots : ProgContributions(p, f)
    \/ \E p \in Paths : \E f \in Slots : ProgStatistics(p, f)
    \/ \E p \in Paths : \E f \in Slots : ProgFinish(p, f)
    \/ \E p \in Paths : ProgCancel(p)
    \/ \E n \in ProgCounts : ProgSetMaxParallel(n)

SpecProgress == Init /\ [][NextProgress]_vars

(* ------------------------------------------------------------------ *)
(* bitrate/parser.rs: the probe modes                                   *)
(* ------------------------------------------------------------------ *)

\* SAMPLING_THRESHOLD_BYTES, SAMPLE_COUNT, SAMPLE_DURATION_SECS. File sizes
\* are counted in MiB (5 GiB = 5120 MiB).
SamplingThresholdMiB == 5120
SampleCount == 10
SampleDurationSecs == 30

\* Option<String>::None as a frame type.
NoType == "None"

\* A frame or packet: (timestamp, size, frame_type).
Frame(timestamp, size, frame_type) == <<timestamp, size, frame_type>>

Ok(data) == [kind |-> "ok", data |-> data]

Err(message) == [kind |-> "error", data |-> message]

\* One run of ffprobe: its exit status and the rows it printed that parse.
Run(success, rows) == [success |-> success, rows |-> rows]

\* What packet mode prints for a stream, and what frame mode prints.
PacketRows == <<Frame(0, 100, "I"), Frame(1, 50, NoType)>>

FrameRows == <<Frame(0, 100, "I"), Frame(1, 50, "P")>>

\* What a run can print: nothing, or the rows of the stream.
PacketOutputs == {<<>>, PacketRows}

FrameOutputs == {<<>>, FrameRows}

\* parse_ffprobe_packets_internal after the child has exited: a failed exit
\* status and an empty result are errors.
ParseFFprobePackets(run) ==
    IF ~run.success THEN Err("ffprobe failed")
    ELSE IF run.rows = <<>> THEN Err("No packets found")
    ELSE Ok(run.rows)

\* parse_ffprobe_frames after the child has exited.
ParseFFprobeFrames(run) ==
    IF ~run.success THEN Err("ffprobe failed")
    ELSE IF run.rows = <<>> THEN Err("No frames found")
    ELSE Ok(run.rows)

\* parse_ffprobe_auto without the fallback to frame mode.
ParseFFprobeAutoPacketOnly(prefer_accuracy, packet_run, frame_run) ==
    IF prefer_accuracy
    THEN [result |-> ParseFFprobeFrames(frame_run), invoked |-> <<"frames">>]
    ELSE [result |-> ParseFFprobePackets(packet_run), invoked |-> <<"packets">>]

\* parse_ffprobe_auto: the result, and the modes it invoked in order.
ParseFFprobeAuto(prefer_accuracy, packet_run, frame_run) ==
    IF prefer_accuracy
    THEN [result |-> ParseFFprobeFrames(frame_run), invoked |-> <<"frames">>]
    ELSE LET packets == ParseFFprobePackets(packet_run)
         IN  IF packets.kind = "ok" /\ packets.data # <<>>
             THEN [result |-> packets, invoked |-> <<"packets">>]
             ELSE [result |-> ParseFFprobeFrames(frame_run),
                   invoked |-> <<"packets", "frames">>]

ParserCommit(call) ==
    /\ parsed' = call
    /\ UNCHANGED <<getters, rewriter, progress, emitted, overall, probe, disk, hashed>>
    /\ UNCHANGED queueVars
    /\ UNCHANGED cacheVars

\* A call of parse_ffprobe_auto; the runs are what ffprobe does in either
\* mode if it is invoked.
Auto(prefer_accuracy, packet_run, frame_run) ==
    ParserCommit([op |-> "auto", prefer_accuracy |-> prefer_accuracy,
                  packet_run |-> packet_run, frame_run |-> frame_run,
                  out |-> ParseFFprobeAuto(prefer_accuracy, packet_run, frame_run)])

\* The samples of parse_ffprobe_sampled, by index.
SampleIndices == 0..(SampleCount - 1)

\* The durations, in seconds, and the file sizes, in MiB, the sampled probe
\* is called with.
Durations == {200, 300, 301, 600}

FileSizes == {SamplingThresholdMiB - 1, SamplingThresholdMiB, 6 * 1024}

\* format!("{}%+{}", start_pos, SAMPLE_DURATION_SECS) for sample i, where
\* start_pos = i * (duration / SAMPLE_COUNT): the start in tenths of a
\* second, and the length in seconds.
ReadInterval(i, duration) ==
    [start_tenths |-> (i * duration * 10) \div SampleCount,
     seconds |-> SampleDurationSecs]

\* The packets ffprobe prints for a read interval.
SampleRows(read_interval) ==
    <<Frame(read_interval.start_tenths, 100, "I"),
      Frame(read_interval.start_tenths + 1, 50, NoType)>>

\* The run of ffprobe on the read interval of sample i: the samples in good
\* print their packets, the others fail in the way bad says.
SampleRun(i, duration, good, bad) ==
    IF i \in good THEN Run(TRUE, SampleRows(ReadInterval(i, duration)))
    ELSE IF bad = "exit" THEN Run(FALSE, <<>>)
    ELSE Run(TRUE, <<>>)

\* The loop over sample_positions: all_packets after the samples up to i,
\* and the read intervals probed.
RECURSIVE CollectSamples(_, _, _, _)
CollectSamples(i, duration, good, bad) ==
    IF i < 0 THEN [all_packets |-> <<>>, probes |-> <<>>]
    ELSE LET before == CollectSamples(i - 1, duration, good, bad)
             read_interval == ReadInterval(i, duration)
             packets == ParseFFprobePackets(SampleRun(i, duration, good, bad))
         IN  [all_packets |-> IF packets.kind = "ok"
                              THEN before.all_packets \o packets.data
                              ELSE before.all_packets,
              probes |-> Append(before.probes, read_interval)]

\* A full probe in packet mode: read_interval is None.
FullProbe == "full"

\* let data = parse_ffprobe_packets(path, stream_index)?; Ok((data, false))
FullAnalysis(full_run, probes) ==
    LET data == ParseFFprobePackets(full_run)
    IN  [result |-> data, sampled |-> FALSE, probes |-> Append(probes, FullProbe)]

\* parse_ffprobe_sampled that returns what the samples gave, also if that is
\* nothing.
ParseFFprobeSampledNoFallback(duration, file_size, full_run, good, bad) ==
    IF file_size < SamplingThresholdMiB THEN FullAnalysis(full_run, <<>>)
    ELSE IF duration <= SampleDurationSecs * SampleCount
    THEN FullAnalysis(full_run, <<>>)
    ELSE LET samples == CollectSamples(SampleCount - 1, duration, good, bad)
         IN  [result |-> Ok(samples.all_packets), sampled |-> TRUE,
              probes |-> samples.probes]

\* parse_ffprobe_sampled: the result, was_sampled, and the probes it ran in
\* order.
ParseFFprobeSampled(duration, file_size, full_run, good, bad) ==
    IF file_size < SamplingThresholdMiB THEN FullAnalysis(full_run, <<>>)
    ELSE IF duration <= SampleDurationSecs * SampleCount
    THEN FullAnalysis(full_run, <<>>)
    ELSE LET samples == CollectSamples(SampleCount - 1, duration, good, bad)
         IN  IF samples.all_packets = <<>>
             THEN FullAnalysis(full_run, samples.probes)
             ELSE [result |-> Ok(samples.all_packets), sampled |-> TRUE,
                   probes |-> samples.probes]

\* A call of parse_ffprobe_sampled; full_run is what ffprobe does on the
\* whole file, good the samples whose probe succeeds.
Sampled(duration, file_size, full_run, good, bad) ==
    ParserCommit([op |-> "sampled", duration |-> duration, file_size |-> file_size,
                  full_run |-> full_run, good |-> good, bad |-> bad,
                  out |-> ParseFFprobeSampled(duration, file_size, full_run, good, bad)])

\* The caller has taken the result.
ParserReturn ==
    /\ parsed # NoParse
    /\ parsed' = NoParse
    /\ UNCHANGED <<getters, rewriter, progress, emitted, overall, probe, disk, hashed>>
    /\ UNCHANGED queueVars
    /\ UNCHANGED cacheVars

(* ------------------------------------------------------------------ *)
(* bitrate/parser.rs: aggregate_bitrate_intervals, calculate_statistics  *)
(* ------------------------------------------------------------------ *)

\* Timestamps, intervals and durations are f64 seconds in the code and are
\* counted in tenths of a second here.
PerSecond == 10

\* The frames the aggregation is called with: timestamps before the start of
\* the stream (ffprobe prints negative pts for such packets), inside the
\* duration and after it; two sizes; with and without a frame type.
FrameTimestamps == {-5, 3, 7, 12, 30}

FrameSizes == {1000, 1500}

FrameTypes == {NoType, "I", "P"}

FrameSet == FrameTimestamps \X FrameSizes \X FrameTypes

FrameSeqs == UNION {[1..n -> FrameSet] : n \in 0..MaxFrames}

\* interval_seconds: 0.5 s and 1 s; duration: 0 s and multiples or not of
\* the interval.
AggregateIntervals == {5, 10}

AggregateDurations == {0, 10, 15, 20}

\* x as usize for an f64 without a fraction: negative values become 0.
AsUsize(x) == IF x < 0 THEN 0 ELSE x

\* (a / b).ceil() and (a / b).floor() for b > 0.
CeilDiv(a, b) == -((-a) \div b)

FloorDiv(a, b) == a \div b

\* The loop over the frames: intervals as (total_size, count, frame_type)
\* after the first k frames.
RECURSIVE FillIntervals(_, _, _, _)
FillIntervals(frames, k, interval, num_intervals) ==
    IF k = 0 THEN [i \in 0..(num_intervals - 1) |-> <<0, 0, NoType>>]
    ELSE LET intervals == FillIntervals(frames, k - 1, interval, num_intervals)
             timestamp == frames[k][1]
             size == frames[k][2]
             frame_type == frames[k][3]
             interval_idx == AsUsize(FloorDiv(timestamp, interval))
         IN  IF interval_idx < num_intervals
             THEN [intervals EXCEPT ![interval_idx] =
                      <<@[1] + size, @[2] + 1,
                        IF @[3] = NoType THEN frame_type ELSE @[3]>>]
             ELSE intervals

\* The data point of interval idx.
DataPoint(idx, interval, bucket) ==
    [timestamp |-> idx * interval,
     bitrate |-> FloorDiv(bucket[1] * 8 * PerSecond, interval),
     frame_type |-> bucket[3]]

\* aggregate_bitrate_intervals with the number of intervals rounded down.
AggregateRoundedDown(frames, interval, duration) ==
    IF frames = <<>> THEN [intervals |-> <<>>, data_points |-> <<>>]
    ELSE LET num_intervals == AsUsize(FloorDiv(duration, interval))
             intervals == FillIntervals(frames, Len(frames), interval, num_intervals)
         IN  [intervals |-> [i \in 1..num_intervals |-> intervals[i - 1]],
              data_points |-> [i \in 1..num_intervals |->
                                  DataPoint(i - 1, interval, intervals[i - 1])]]

\* aggregate_bitrate_intervals: the intervals it filled and the data points
\* it returns.
AggregateBitrateIntervals(frames, interval, duration) ==
    IF frames = <<>> THEN [intervals |-> <<>>, data_points |-> <<>>]
    ELSE LET num_intervals == AsUsize(CeilDiv(duration, interval))
             intervals == FillIntervals(frames, Len(frames), interval, num_intervals)
         IN  [intervals |-> [i \in 1..num_intervals |-> intervals[i - 1]],
              data_points |-> [i \in 1..num_intervals |->
                                  DataPoint(i - 1, interval, intervals[i - 1])]]

\* A call of aggregate_bitrate_intervals.
Aggregate(frames, interval, duration) ==
    ParserCommit([op |-> "aggregate", frames |-> frames, interval |-> interval,
                  duration |-> duration,
                  out |-> AggregateBitrateIntervals(frames, interval, duration)])

\* The bitrates of the points the statistics are computed over, and the
\* distance of two points (1 s, 3 s, 6 s).
Bitrates == {0, 1, 2, 5}

PointIntervals == {10, 30, 60}

BitrateSeqs == UNION {[1..n -> Bitrates] : n \in 0..MaxPoints}

\* The data points with the given bitrates, interval apart.
PointsOf(bitrates, interval) ==
    [i \in DOMAIN bitrates |->
        [timestamp |-> (i - 1) * interval, bitrate |-> bitrates[i]]]

\* bitrates.iter().min() and max() of a series that is not empty.
MinOf(bitrates) ==
    CHOOSE b \in {bitrates[i] : i \in DOMAIN bitrates} :
        \A i \in DOMAIN bitrates : b <= bitrates[i]

MaxOf(bitrates) ==
    CHOOSE b \in {bitrates[i] : i \in DOMAIN bitrates} :
        \A i \in DOMAIN bitrates : b >= bitrates[i]

RECURSIVE SumOf(_, _)
SumOf(bitrates, k) == IF k = 0 THEN 0 ELSE SumOf(bitrates, k - 1) + bitrates[k]

\* sort_unstable by insertion, one element at a time.
RECURSIVE SortUnstable(_, _)
SortUnstable(bitrates, k) ==
    IF k = 0 THEN <<>>
    ELSE LET sorted == SortUnstable(bitrates, k - 1)
             b == bitrates[k]
             before == Cardinality({i \in DOMAIN sorted : sorted[i] <= b})
         IN  SubSeq(sorted, 1, before) \o <<b>> \o SubSeq(sorted, before + 1, Len(sorted))

\* The sum of the squares of the differences from the average.
RECURSIVE SumSquares(_, _, _)
SumSquares(bitrates, avg, k) ==
    IF k = 0 THEN 0
    ELSE SumSquares(bitrates, avg, k - 1) + (bitrates[k] - avg) * (bitrates[k] - avg)

\* The square root, rounded down: the largest r in lo..hi with r * r <= x.
RECURSIVE SqrtBetween(_, _, _)
SqrtBetween(x, lo, hi) ==
    IF lo = hi THEN lo
    ELSE LET mid == (lo + hi + 1) \div 2
         IN  IF mid * mid <= x THEN SqrtBetween(x, mid, hi)
             ELSE SqrtBetween(x, lo, mid - 1)

Sqrt(x) == SqrtBetween(x, 0, 46340)

\* The loop that keeps the bitrate of the first point of a peak.
RECURSIVE PeakLoopFirstBitrate(_, _, _)
PeakLoopFirstBitrate(data_points, peak_threshold, k) ==
    IF k = 0
    THEN [in_peak |-> FALSE, peak_start |-> 0, peak_bitrate |-> 0, peak_intervals |-> <<>>]
    ELSE LET l == PeakLoopFirstBitrate(data_points, peak_threshold, k - 1)
             point == data_points[k]
         IN  IF point.bitrate > peak_threshold
             THEN IF ~l.in_peak
                  THEN [l EXCEPT !.in_peak = TRUE, !.peak_start = point.timestamp,
                                 !.peak_bitrate = point.bitrate]
                  ELSE l
             ELSE IF l.in_peak
                  THEN LET duration == point.timestamp - l.peak_start
                       IN  [l EXCEPT !.in_peak = FALSE,
                               !.peak_intervals =
                                   IF duration > 5 * PerSecond
                                   THEN Append(@, [start_time |-> l.peak_start,
                                                   end_time |-> point.timestamp,
                                                   peak_bitrate |-> l.peak_bitrate,
                                                   duration |-> duration])
                                   ELSE @]
                  ELSE l

\* The loop that records the peaks of 5 s too.
RECURSIVE PeakLoopAtLeast(_, _, _)
PeakLoopAtLeast(data_points, peak_threshold, k) ==
    IF k = 0
    THEN [in_peak |-> FALSE, peak_start |-> 0, peak_bitrate |-> 0, peak_intervals |-> <<>>]
    ELSE LET l == PeakLoopAtLeast(data_points, peak_threshold, k - 1)
             point == data_points[k]
         IN  IF point.bitrate > peak_threshold
             THEN IF ~l.in_peak
                  THEN [l EXCEPT !.in_peak = TRUE, !.peak_start = point.timestamp,
                                 !.peak_bitrate = point.bitrate]
                  ELSE [l EXCEPT !.peak_bitrate =
                                     IF @ >= point.bitrate THEN @ ELSE point.bitrate]
             ELSE IF l.in_peak
                  THEN LET duration == point.timestamp - l.peak_start
                       IN  [l EXCEPT !.in_peak = FALSE,
                               !.peak_intervals =
                                   IF duration >= 5 * PerSecond
                                   THEN Append(@, [start_time |-> l.peak_start,
                                                   end_time |-> point.timestamp,
                                                   peak_bitrate |-> l.peak_bitrate,
                                                   duration |-> duration])
                                   ELSE @]
                  ELSE l

\* The loop over the points that collects the peaks: its variables after the
\* first k points.
RECURSIVE PeakLoop(_, _, _)
PeakLoop(data_points, peak_threshold, k) ==
    IF k = 0
    THEN [in_peak |-> FALSE, peak_start |-> 0, peak_bitrate |-> 0, peak_intervals |-> <<>>]
    ELSE LET l == PeakLoop(data_points, peak_threshold, k - 1)
             point == data_points[k]
         IN  IF point.bitrate > peak_threshold
             THEN IF ~l.in_peak
                  THEN [l EXCEPT !.in_peak = TRUE, !.peak_start = point.timestamp,
                                 !.peak_bitrate = point.bitrate]
                  ELSE [l EXCEPT !.peak_bitrate =
                                     IF @ >= point.bitrate THEN @ ELSE point.bitrate]
             ELSE IF l.in_peak
                  THEN LET duration == point.timestamp - l.peak_start
                       IN  [l EXCEPT !.in_peak = FALSE,
                               !.peak_intervals =
                                   IF duration > 5 * PerSecond
                                   THEN Append(@, [start_time |-> l.peak_start,
                                                   end_time |-> point.timestamp,
                                                   peak_bitrate |-> l.peak_bitrate,
                                                   duration |-> duration])
                                   ELSE @]
                  ELSE l

\* The median of a sorted series that takes the upper of the two middle
\* elements of an even number of points.
MedianUpper(sorted_bitrates) == sorted_bitrates[(Len(sorted_bitrates) \div 2) + 1]

\* The median of the sorted series.
Median(sorted_bitrates) ==
    LET len == Len(sorted_bitrates)
    IN  IF len % 2 = 0
        THEN (sorted_bitrates[len \div 2] + sorted_bitrates[(len \div 2) + 1]) \div 2
        ELSE sorted_bitrates[(len \div 2) + 1]

\* calculate_statistics; std_deviation is in thousandths, rounded down.
CalculateStatistics(data_points) ==
    IF data_points = <<>>
    THEN [min_bitrate |-> 0, max_bitrate |-> 0, avg_bitrate |-> 0, median_bitrate |-> 0,
          std_deviation |-> 0, peak_intervals |-> <<>>, total_frames |-> 0]
    ELSE LET bitrates == [i \in DOMAIN data_points |-> data_points[i].bitrate]
             len == Len(bitrates)
             avg_bitrate == SumOf(bitrates, len) \div len
             sorted_bitrates == SortUnstable(bitrates, len)
             peak_threshold == (avg_bitrate * 3) \div 2
         IN  [min_bitrate |-> MinOf(bitrates),
              max_bitrate |-> MaxOf(bitrates),
              avg_bitrate |-> avg_bitrate,
              median_bitrate |-> Median(sorted_bitrates),
              std_deviation |->
                  Sqrt((SumSquares(bitrates, avg_bitrate, len) * 1000000) \div len),
              peak_intervals |->
                  PeakLoop(data_points, peak_threshold, len).peak_intervals,
              total_frames |-> len]

\* A call of calculate_statistics.
Statistics(bitrates, interval) ==
    ParserCommit([op |-> "statistics", bitrates |-> bitrates, interval |-> interval,
                  out |-> CalculateStatistics(PointsOf(bitrates, interval))])

\* The series the peaks are looked for in: up to MaxSeries points whose
\* bitrates make runs above and below the threshold, 2 s, 3 s or 6 s after
\* the point before.
PeakBitrates == {0, 2, 5}

PointGaps == {20, 30, 60}

\* The points with the given bitrates, the first at 0 and each one the gap
\* after the one before.
RECURSIVE SeriesOf(_, _, _)
SeriesOf(bitrates, gaps, k) ==
    IF k = 0 THEN <<>>
    ELSE LET series == SeriesOf(bitrates, gaps, k - 1)
         IN  Append(series,
                    [timestamp |-> IF k = 1 THEN 0
                                   ELSE series[k - 1].timestamp + gaps[k - 1],
                     bitrate |-> bitrates[k]])

\* A call of calculate_statistics for such a series.
Summarize(bitrates, gaps) ==
    LET data_points == SeriesOf(bitrates, gaps, Len(bitrates))
    IN  ParserCommit([op |-> "summarize", data_points |-> data_points,
                      out |-> CalculateStatistics(data_points)])

\* The sampled frames extrapolate_sampled_data is called with: timestamps
\* before the start, in the first buckets and after the full duration;
\* frames of no bytes and of 1000 bytes. The frame types are not read.
SampledTimestamps == {-5, 3, 12, 30}

SampledSizes == {0, 1000}

SampledSet == SampledTimestamps \X SampledSizes \X {NoType}

SampledSeqs == UNION {[1..n -> SampledSet] : n \in 0..MaxFrames}

\* sampled_duration and full_duration.
SampledDurations == {0, 10, 30}

FullDurations == {0, 15, 20}

\* extrapolate_sampled_data that takes a bucket without bytes for a bucket
\* without frames.
ExtrapolateByBytes(sampled_data, sampled_duration, full_duration, interval) ==
    IF sampled_data = <<>> THEN <<>>
    ELSE LET total_bytes == SumOf([k \in DOMAIN sampled_data |-> sampled_data[k][2]],
                                  Len(sampled_data))
             avg_bitrate == IF sampled_duration > 0
                            THEN FloorDiv(total_bytes * 8 * PerSecond, sampled_duration)
                            ELSE 0
             num_intervals == AsUsize(CeilDiv(full_duration, interval))
             intervals == FillIntervals(sampled_data, Len(sampled_data), interval,
                                        num_intervals)
         IN  [i \in 1..num_intervals |->
                 [timestamp |-> (i - 1) * interval,
                  bitrate |-> IF intervals[i - 1][1] > 0
                              THEN FloorDiv(intervals[i - 1][1] * 8 * PerSecond, interval)
                              ELSE avg_bitrate,
                  frame_type |-> NoType]]

\* extrapolate_sampled_data: the average bitrate of the samples, the
\* intervals as (total_bytes, count), filled by the same loop as in the
\* aggregation, and the points.
ExtrapolateSampledData(sampled_data, sampled_duration, full_duration, interval) ==
    IF sampled_data = <<>> THEN <<>>
    ELSE LET total_bytes == SumOf([k \in DOMAIN sampled_data |-> sampled_data[k][2]],
                                  Len(sampled_data))
             avg_bitrate == IF sampled_duration > 0
                            THEN FloorDiv(total_bytes * 8 * PerSecond, sampled_duration)
                            ELSE 0
             num_intervals == AsUsize(CeilDiv(full_duration, interval))
             intervals == FillIntervals(sampled_data, Len(sampled_data), interval,
                                        num_intervals)
         IN  [i \in 1..num_intervals |->
                 [timestamp |-> (i - 1) * interval,
                  bitrate |-> IF intervals[i - 1][2] > 0
                              THEN FloorDiv(intervals[i - 1][1] * 8 * PerSecond, interval)
                              ELSE avg_bitrate,
                  frame_type |-> NoType]]

\* A call of extrapolate_sampled_data.
Extrapolate(sampled_data, sampled_duration, full_duration, interval) ==
    ParserCommit([op |-> "extrapolate", sampled_data |-> sampled_data,
                  sampled_duration |-> sampled_duration,
                  full_duration |-> full_duration, interval |-> interval,
                  out |-> ExtrapolateSampledData(sampled_data, sampled_duration,
                                                 full_duration, interval)])

\* The next call begins when the last one has returned.
NextParser ==
    \/ /\ parsed = NoParse
       /\ \E pa, pok, fok \in BOOLEAN :
          \E pr \in PacketOutputs : \E fr \in FrameOutputs :
             Auto(pa, Run(pok, pr), Run(fok, fr))
    \/ /\ parsed = NoParse
       /\ \E d \in Durations : \E sz \in FileSizes :
          \E ok \in BOOLEAN : \E rows \in PacketOutputs :
          \E good \in SUBSET SampleIndices : \E bad \in {"exit", "empty"} :
             Sampled(d, sz, Run(ok, rows), good, bad)
    \/ /\ parsed = NoParse
       /\ \E frames \in FrameSeqs : \E interval \in AggregateIntervals :
          \E duration \in AggregateDurations :
             Aggregate(frames, interval, duration)
    \/ /\ parsed = NoParse
       /\ \E bitrates \in BitrateSeqs : \E interval \in PointIntervals :
             Statistics(bitrates, interval)
    \/ /\ parsed = NoParse
       /\ \E n \in 0..MaxSeries :
          \E bitrates \in [1..n -> PeakBitrates] :
          \E gaps \in [1..(IF n = 0 THEN 0 ELSE n - 1) -> PointGaps] :
             Summarize(bitrates, gaps)
    \/ /\ parsed = NoParse
       /\ \E sampled_data \in SampledSeqs : \E sampled_duration \in SampledDurations :
          \E full_duration \in FullDurations : \E interval \in AggregateIntervals :
             Extrapolate(sampled_data, sampled_duration, full_duration, interval)
    \/ ParserReturn

SpecParser == Init /\ [][NextParser]_vars

(* ------------------------------------------------------------------ *)
(* The stream probes of analyze_overall_bitrate and analyze_stream_bitrate *)
(* ------------------------------------------------------------------ *)

\* The streams of the file, by index.
StreamIndices == 1..NumStreams

StreamTypes == {"video", "audio", "subtitle"}

\* analysis_streams: the video and audio streams.
AnalysisStreams(types) ==
    {i \in DOMAIN types : types[i] = "video" \/ types[i] = "audio"}

OverallCommit(o) ==
    /\ overall' = o
    /\ UNCHANGED <<getters, rewriter, progress, emitted, parsed, probe, disk, hashed>>
    /\ UNCHANGED queueVars
    /\ UNCHANGED cacheVars

\* interval_seconds and the duration of the file, in tenths of a second: one
\* interval of 1 s, no duration and a duration of 1.5 s.
OverallIntervals == {10}

OverallDurations == {0, 15}

\* The frames a probe of a stream returns, as (timestamp, size): in the
\* first interval, in the second, in both, and after the duration.
StreamFrames ==
    {<<<<3, 1000, NoType>>>>, <<<<12, 3000, NoType>>>>,
     <<<<3, 1000, NoType>>, <<12, 1000, NoType>>>>, <<<<30, 1000, NoType>>>>}

\* stream_intervals of the closure: the bytes of the frames of one stream
\* per interval.
StreamIntervals(frames, interval, duration) ==
    LET num_intervals == AsUsize(CeilDiv(duration, interval))
        filled == FillIntervals(frames, Len(frames), interval, num_intervals)
    IN  [i \in 1..num_intervals |-> filled[i - 1][1]]

\* The sum of the bytes of a vector of intervals.
RECURSIVE IntervalSum(_, _)
IntervalSum(intervals, k) ==
    IF k = 0 THEN 0 ELSE IntervalSum(intervals, k - 1) + intervals[k]

\* The element-wise sum of the intervals of the streams in stream_results.
RECURSIVE AddIntervals(_, _, _)
AddIntervals(o, stream_results, num_intervals) ==
    IF stream_results = {} THEN [i \in 1..num_intervals |-> 0]
    ELSE LET s == CHOOSE x \in stream_results : \A y \in stream_results : x >= y
             combined_intervals == AddIntervals(o, stream_results \ {s}, num_intervals)
         IN  [i \in 1..num_intervals |-> combined_intervals[i] + o.intervals[s][i]]

\* The data points of a vector of intervals.
IntervalPoints(intervals, interval) ==
    [i \in DOMAIN intervals |->
        [timestamp |-> (i - 1) * interval,
         bitrate |-> FloorDiv(intervals[i] * 8 * PerSecond, interval),
         frame_type |-> NoType]]

\* stream_total / combined_total * 100, as a fraction; 0 if combined_total
\* is 0.
Percentage(stream_total, combined_total) ==
    IF combined_total > 0 THEN [num |-> stream_total * 100, den |-> combined_total]
    ELSE [num |-> 0, den |-> 1]

\* The combination whose total also counts a byte for every stream whose
\* probe failed.
CombineSelected(o) ==
    LET num_intervals == AsUsize(CeilDiv(o.duration, o.interval))
        stream_results == {i \in DOMAIN o.status : o.status[i] = "ok"}
        combined_intervals == AddIntervals(o, stream_results, num_intervals)
        combined_total == IntervalSum(combined_intervals, num_intervals)
                             + Cardinality({i \in DOMAIN o.status : o.status[i] = "failed"})
    IN  [kind |-> "ok",
         combined_intervals |-> combined_intervals,
         combined_total |-> combined_total,
         data_points |-> IntervalPoints(combined_intervals, o.interval),
         stream_contributions |->
             [s \in stream_results |->
                 [intervals |-> o.intervals[s],
                  stream_total |-> IntervalSum(o.intervals[s], num_intervals),
                  percentage |-> Percentage(IntervalSum(o.intervals[s], num_intervals),
                                            combined_total),
                  data_points |-> IntervalPoints(o.intervals[s], o.interval)]]]

\* The combination of the stream results after the par_iter:
\* combined_intervals, combined_total, the data points and the contribution
\* of each analysed stream with its intervals and their sum.
Combine(o) ==
    LET num_intervals == AsUsize(CeilDiv(o.duration, o.interval))
        stream_results == {i \in DOMAIN o.status : o.status[i] = "ok"}
        combined_intervals == AddIntervals(o, stream_results, num_intervals)
        combined_total == IntervalSum(combined_intervals, num_intervals)
    IN  [kind |-> "ok",
         combined_intervals |-> combined_intervals,
         combined_total |-> combined_total,
         data_points |-> IntervalPoints(combined_intervals, o.interval),
         stream_contributions |->
             [s \in stream_results |->
                 [intervals |-> o.intervals[s],
                  stream_total |-> IntervalSum(o.intervals[s], num_intervals),
                  percentage |-> Percentage(IntervalSum(o.intervals[s], num_intervals),
                                            combined_total),
                  data_points |-> IntervalPoints(o.intervals[s], o.interval)]]]

\* analyze_overall_bitrate has the streams of the file and begins the
\* par_iter over analysis_streams.
OverallBegin(types, interval, duration) ==
    /\ overall.pc \in {"idle", "returned"}
    /\ OverallCommit([NoAnalysis EXCEPT
           !.pc = "probing", !.kind = "overall", !.types = types,
           !.status = [i \in StreamIndices |->
                IF i \in AnalysisStreams(types) THEN "pending" ELSE "unselected"],
           !.interval = interval, !.duration = duration,
           !.intervals = [i \in StreamIndices |-> <<>>]])

\* analyze_stream_bitrate has found its stream and begins its one probe.
StreamBegin(type) ==
    /\ overall.pc \in {"idle", "returned"}
    /\ OverallCommit([NoAnalysis EXCEPT
           !.pc = "probing", !.kind = "stream", !.types = <<type>>,
           !.status = <<"pending">>])

\* cancel_job or cancel_all_jobs sets the flag of the running job.
OverallCancel ==
    /\ overall.pc = "probing"
    /\ ~overall.flag
    /\ OverallCommit([overall EXCEPT !.flag = TRUE])

\* The closure of filter_map for one stream: None if the flag is set;
\* otherwise the probe, which counts the stream and yields its intervals, or
\* fails and yields None.
OverallProbe(i, ok, frames) ==
    /\ overall.pc = "probing" /\ overall.kind = "overall"
    /\ overall.status[i] = "pending"
    /\ OverallCommit(
          IF overall.flag THEN [overall EXCEPT !.status[i] = "skipped"]
          ELSE IF ok THEN [overall EXCEPT !.status[i] = "ok",
                                          !.analyzed_count = @ + 1,
                                          !.intervals[i] = StreamIntervals(
                                              frames, overall.interval, overall.duration)]
          ELSE [overall EXCEPT !.status[i] = "failed"])

\* analyze_overall_bitrate treated like analyze_stream_bitrate: the first
\* failed probe is the error of the analysis.
OverallResultFailFast(o) ==
    IF o.flag THEN [kind |-> "cancelled", stream_contributions |-> {}]
    ELSE IF \E i \in DOMAIN o.status : o.status[i] = "failed"
    THEN [kind |-> "error", stream_contributions |-> {}]
    ELSE [kind |-> "ok",
          stream_contributions |-> {i \in DOMAIN o.status : o.status[i] = "ok"}]

\* What analyze_overall_bitrate returns after the par_iter: the flag is
\* checked, then analyzed_count; the contributions are the collected results.
OverallResult(o) ==
    LET stream_results == {i \in DOMAIN o.status : o.status[i] = "ok"}
    IN  IF o.flag THEN [kind |-> "cancelled", stream_contributions |-> {}]
        ELSE IF o.analyzed_count = 0
        THEN [kind |-> "error", stream_contributions |-> {}]
        ELSE [kind |-> "ok", stream_contributions |-> stream_results]

\* The par_iter has visited every stream; the analysis returns.
OverallCollect ==
    /\ overall.pc = "probing" /\ overall.kind = "overall"
    /\ \A i \in DOMAIN overall.status : overall.status[i] # "pending"
    /\ OverallCommit([overall EXCEPT
           !.pc = "returned",
           !.result = OverallResult(overall),
           !.combination = IF OverallResult(overall).kind = "ok"
                           THEN Combine(overall) ELSE [kind |-> "none"]])

\* let frames = parse_ffprobe_auto(..)?; in analyze_stream_bitrate: an error
\* of the probe is the error of the analysis, and the flag is not looked at.
StreamProbe(ok) ==
    /\ overall.pc = "probing" /\ overall.kind = "stream"
    /\ OverallCommit(
          IF ok THEN [overall EXCEPT !.pc = "returned", !.status[1] = "ok",
                         !.result = [kind |-> "ok", stream_contributions |-> {1}]]
          ELSE [overall EXCEPT !.pc = "returned", !.status[1] = "failed",
                   !.result = [kind |-> "error", stream_contributions |-> {}]])

NextStreams ==
    \/ \E types \in [StreamIndices -> StreamTypes] :
       \E interval \in OverallIntervals : \E duration \in OverallDurations :
          OverallBegin(types, interval, duration)
    \/ \E type \in StreamTypes : StreamBegin(type)
    \/ OverallCancel
    \/ \E i \in StreamIndices : \E ok \in BOOLEAN : \E frames \in StreamFrames :
          OverallProbe(i, ok, frames)
    \/ OverallCollect
    \/ \E ok \in BOOLEAN : StreamProbe(ok)

SpecStreams == Init /\ [][NextStreams]_vars

(* ------------------------------------------------------------------ *)
(* bitrate/parser.rs: the ffprobe child, its pipes and the timeout       *)
(* ------------------------------------------------------------------ *)

\* Duration::from_secs(180) and from_secs(300); thread::sleep of 50 ms and
\* of 100 ms. Times are counted in milliseconds.
PacketTimeoutMs == 180000
FrameTimeoutMs == 300000
PacketPollMs == 50
FramePollMs == 100

Modes == {"packets", "frames"}

Timeout(mode) == IF mode = "packets" THEN PacketTimeoutMs ELSE FrameTimeoutMs

PollSleep(mode) == IF mode = "packets" THEN PacketPollMs ELSE FramePollMs

\* The moments at which the caller can wake up: around the start and around
\* the deadline.
Instants(mode) ==
    {0, PollSleep(mode), Timeout(mode) - PollSleep(mode), Timeout(mode),
     Timeout(mode) + PollSleep(mode), Timeout(mode) + 2 * PollSleep(mode)}

PipeNames == {"out", "err"}

ProbeCommit(pr) ==
    /\ probe' = pr
    /\ UNCHANGED <<getters, rewriter, progress, emitted, overall, parsed, disk, hashed>>
    /\ UNCHANGED queueVars
    /\ UNCHANGED cacheVars

\* Command::spawn with both pipes: the child has out and err units to
\* write; child.stdout.take() and child.stderr.take().
ProbeSpawn(mode, out, err) ==
    /\ probe.pc \in {"idle", "returned"}
    /\ ProbeCommit([NoProbe EXCEPT !.pc = "spawned", !.mode = mode,
                                   !.child = "running",
                                   !.left = [out |-> out, err |-> err]])

\* The caller goes on to wait without a thread that reads stdout.
SpawnStdoutThreadLate ==
    /\ probe.pc = "spawned"
    /\ ProbeCommit([probe EXCEPT !.pc = "stdout_spawned"])

\* let stdout_thread = thread::spawn(..).
SpawnStdoutThread ==
    /\ probe.pc = "spawned"
    /\ ProbeCommit([probe EXCEPT !.pc = "stdout_spawned", !.reader.out = "reading"])

\* let stderr_thread = thread::spawn(..); let start = Instant::now().
SpawnStderrThread ==
    /\ probe.pc = "stdout_spawned"
    /\ ProbeCommit([probe EXCEPT !.pc = "loop", !.reader.err = "reading",
                                 !.elapsed = 0])

\* The child writes a unit into a pipe that has room. If the read end is
\* closed the write fails and the child dies of it.
ChildWrite(s) ==
    /\ probe.child = "running"
    /\ probe.left[s] > 0
    /\ IF probe.reader[s] = "panicked"
       THEN ProbeCommit([probe EXCEPT !.child = "exited", !.success = FALSE])
       ELSE /\ probe.buf[s] < PipeCapacity
            /\ ProbeCommit([probe EXCEPT !.left[s] = @ - 1, !.buf[s] = @ + 1])

\* The child exits: with success once it has written everything, with a
\* failure at any time.
ChildExit(success) ==
    /\ probe.child = "running"
    /\ success => probe.left = [out |-> 0, err |-> 0]
    /\ ProbeCommit([probe EXCEPT !.child = "exited", !.success = success])

\* A drainer reads a unit: reader.lines() or read_to_end.
DrainRead(s) ==
    /\ probe.reader[s] = "reading"
    /\ probe.buf[s] > 0
    /\ ProbeCommit([probe EXCEPT !.buf[s] = @ - 1, !.got[s] = @ + 1])

\* A drainer reads the end of the file: the write end is closed and the
\* pipe is empty. The thread returns what it read.
DrainEof(s) ==
    /\ probe.reader[s] = "reading"
    /\ probe.buf[s] = 0
    /\ probe.child \in {"exited", "killed"}
    /\ ProbeCommit([probe EXCEPT !.reader[s] = "done"])

\* A drainer panics: catch_unwind makes the thread return Vec::new(), and
\* its handle of the pipe is dropped.
DrainPanic(s) ==
    /\ probe.reader[s] = "reading"
    /\ ProbeCommit([probe EXCEPT !.reader[s] = "panicked", !.got[s] = 0,
                                 !.buf[s] = 0])

\* One iteration of the loop in which try_wait comes before the look at the
\* clock.
LoopIterationPollFirst(wait_ok) ==
    /\ probe.pc = "loop"
    /\ IF ~wait_ok
       THEN ProbeCommit([probe EXCEPT !.pc = "returned", !.result = "wait_failed",
                            !.polled_at = probe.elapsed,
                            !.child = IF @ = "running" THEN "killed" ELSE @])
       ELSE IF probe.child = "exited"
       THEN ProbeCommit([probe EXCEPT !.pc = "join_stdout",
                                      !.checked_at = probe.elapsed,
                                      !.polled_at = probe.elapsed])
       ELSE IF probe.elapsed > Timeout(probe.mode)
       THEN ProbeCommit([probe EXCEPT !.pc = "returned", !.result = "timeout",
                            !.checked_at = probe.elapsed,
                            !.child = IF @ = "running" THEN "killed" ELSE @])
       ELSE ProbeCommit([probe EXCEPT !.pc = "sleep",
                                      !.checked_at = probe.elapsed,
                                      !.polled_at = probe.elapsed])

\* One iteration of the loop: past the deadline the child is killed and the
\* call returns the timeout; otherwise child.try_wait() tells that the child
\* has exited, or that it runs, or fails.
LoopIteration(wait_ok) ==
    /\ probe.pc = "loop"
    /\ IF probe.elapsed > Timeout(probe.mode)
       THEN ProbeCommit([probe EXCEPT !.pc = "returned", !.result = "timeout",
                            !.checked_at = probe.elapsed,
                            !.child = IF @ = "running" THEN "killed" ELSE @])
       ELSE IF ~wait_ok
       THEN ProbeCommit([probe EXCEPT !.pc = "returned", !.result = "wait_failed",
                            !.checked_at = probe.elapsed,
                            !.polled_at = probe.elapsed,
                            !.child = IF @ = "running" THEN "killed" ELSE @])
       ELSE IF probe.child = "exited"
       THEN ProbeCommit([probe EXCEPT !.pc = "join_stdout",
                                      !.checked_at = probe.elapsed,
                                      !.polled_at = probe.elapsed])
       ELSE ProbeCommit([probe EXCEPT !.pc = "sleep",
                                      !.checked_at = probe.elapsed,
                                      !.polled_at = probe.elapsed])

\* thread::sleep returns, after the poll sleep or later.
Sleep(t) ==
    /\ probe.pc = "sleep"
    /\ t >= probe.elapsed + PollSleep(probe.mode)
    /\ ProbeCommit([probe EXCEPT !.pc = "loop", !.elapsed = t])

\* stdout_thread.join(): the thread has returned, after the end of the file
\* or after a panic.
JoinStdout ==
    /\ probe.pc = "join_stdout"
    /\ probe.reader.out \in {"done", "panicked"}
    /\ ProbeCommit([probe EXCEPT !.pc = "join_stderr", !.joined = @ \cup {"out"}])

\* stderr_thread.join(), and what the call returns: the error of a failed
\* exit status or of an empty result, or the result.
JoinStderr ==
    /\ probe.pc = "join_stderr"
    /\ probe.reader.err \in {"done", "panicked"}
    /\ ProbeCommit([probe EXCEPT !.pc = "returned", !.joined = @ \cup {"err"},
                                 !.result = IF ~probe.success THEN "failed"
                                            ELSE IF probe.got.out = 0 THEN "empty"
                                            ELSE "ok"])

NextProbe ==
    \/ \E m \in Modes : \E out, err \in 0..MaxOutput : ProbeSpawn(m, out, err)
    \/ SpawnStdoutThread
    \/ SpawnStderrThread
    \/ \E s \in PipeNames : ChildWrite(s)
    \/ \E ok \in BOOLEAN : ChildExit(ok)
    \/ \E s \in PipeNames : DrainRead(s)
    \/ \E s \in PipeNames : DrainEof(s)
    \/ \E s \in PipeNames : DrainPanic(s)
    \/ \E ok \in BOOLEAN : LoopIteration(ok)
    \/ \E t \in Instants(probe.mode) : Sleep(t)
    \/ JoinStdout
    \/ JoinStderr

SpecProbe == Init /\ [][NextProbe]_vars

(* ------------------------------------------------------------------ *)
(* Properties of the queue under whole calls                            *)
(* ------------------------------------------------------------------ *)
\* The number of entries of the running map, cancelled or not.
RunningSize(q) == Cardinality(RunningPaths(q))

\* The number of job records a path has across queued and running.
JobsOfPath(q, p) ==
    Cardinality(QueuedPos(q, p)) + (IF q.running[p] # NoJob THEN 1 ELSE 0)

ExistingId(q, p) ==
    IF q.running[p] # NoJob THEN q.running[p].id
    ELSE q.queued[Min(QueuedPos(q, p))].id

\* C1 (queue safety): with max_parallel fixed, after every enqueue, complete
\* and cancel call the running map holds at most max_parallel entries,
\* entries whose cancel flag is set included.
C1_QueueSafety == RunningSize(Q) <= max_parallel

\* C2 (uniqueness): a path never has more than one job across queued and
\* running, and enqueue on a path that has a job returns AlreadyExists with
\* the id of that job and leaves the queue as it was.
C2_Uniqueness ==
    /\ \A p \in Paths : JobsOfPath(Q, p) <= 1
    /\ \A p \in Paths : \A h \in Hashes :
         JobsOfPath(Q, p) > 0 =>
            EnqueueJob(Q, p, h, NewFlag(Q, workers, p))
                = [q |-> Q, res |-> Result("AlreadyExists", ExistingId(Q, p))]

\* An enqueue on a queued path was answered with the id of the queued job,
\* which is not the hash the caller passed.
C2_Witness ==
    /\ last.op = "enqueue"
    /\ last.res.kind = "AlreadyExists"
    /\ QueuedPos(Q, last.path) # {}
    /\ last.res.id # last.arg

\* C3 (atomic per path): however calls of enqueue on one path interleave, at
\* most one of them returns Started or Queued, and the path has at most one
\* job across queued and running.
C3_AtomicPerPath ==
    /\ \A p \in Paths : JobsOfPath(Q, p) <= 1
    /\ \A t \in Threads : \A u \in Threads \ {t} :
         ~ /\ threads[t].pc = "ret" /\ threads[u].pc = "ret"
           /\ threads[t].path = threads[u].path
           /\ threads[t].res.kind \in {"Started", "Queued"}
           /\ threads[u].res.kind \in {"Started", "Queued"}

\* C4 (enqueue outcome): for a path without a job, enqueue returns Started and
\* puts the started job into running exactly when |running| < max_parallel at
\* the call; otherwise it returns Queued and appends the unstarted job to the
\* back of queued.
C4_EnqueueOutcome ==
    \A p \in Paths : \A h \in HashesOf(p) :
        JobsOfPath(Q, p) = 0 =>
            LET f == NewFlag(Q, workers, p)
                r == EnqueueJob(Q, p, h, f)
            IN  IF RunningSize(Q) < max_parallel
                THEN /\ r.res = Result("Started", h)
                     /\ r.q.running = [running EXCEPT ![p] = StartJob(NewJob(p, h, f))]
                     /\ r.q.queued = queued
                ELSE /\ r.res = Result("Queued", h)
                     /\ r.q.queued = Append(queued, NewJob(p, h, f))
                     /\ r.q.running = running

\* The number of jobs a promotion loop guarded by |running| < max_parallel
\* moves out of queued.
PromotedWhileFree(q) ==
    LET free == IF RunningSize(q) < q.max THEN q.max - RunningSize(q) ELSE 0
    IN  IF Len(q.queued) < free THEN Len(q.queued) ELSE free

\* The queue with the first k queued jobs moved into running, started.
Promoted(q, k) ==
    [q EXCEPT !.queued = SubSeq(q.queued, k + 1, Len(q.queued)),
              !.running = [p \in Paths |->
                    IF \E i \in 1..k : q.queued[i].path = p
                    THEN StartJob(q.queued[CHOOSE i \in 1..k : q.queued[i].path = p])
                    ELSE q.running[p]]]

\* C5 (complete): complete(path) removes the path's job from running, then
\* promotes from the front of queued while |running| < max_parallel; afterwards
\* queued is empty or running is full, the promoted jobs are started, and a
\* path that was not running loses nothing.
C5_CompletePromotes ==
    \A p \in Paths :
        LET removed == [Q EXCEPT !.running[p] = NoJob]
            after == CompleteJob(Q, p)
        IN  /\ after = Promoted(removed, PromotedWhileFree(removed))
            /\ ~(Len(after.queued) > 0 /\ RunningSize(after) < after.max)

\* What complete does hold to: the path's entry leaves running, the jobs that
\* leave queued come from its front and are in running, started, and afterwards
\* queued is empty or running holds max_parallel entries or more.
CompletePostcondition ==
    \A p \in Paths :
        LET removed == [Q EXCEPT !.running[p] = NoJob]
            after == CompleteJob(Q, p)
        IN  /\ Len(after.queued) <= Len(queued)
            /\ after = Promoted(removed, Len(queued) - Len(after.queued))
            /\ ~(Len(after.queued) > 0 /\ RunningSize(after) < after.max)

\* C9 (cancel): cancel(path) of a running job sets its flag, leaves it in
\* running and returns true; of a queued job removes that job from queued,
\* keeping the order of the others, and returns true; of a path without a job
\* returns false and changes nothing. The jobs of the other paths and
\* max_parallel stay as they are, and the call is never made to wait.
C9_CancelFrame ==
    \A p \in Paths :
        LET r == CancelJob(Q, p)
        IN  /\ r.q.max = max_parallel
            /\ r.q.running = running
            /\ \A o \in Paths : o # p => r.q.cancelled[o] = cancelled[o]
            /\ IF running[p] # NoJob
               THEN /\ r.res = TRUE
                    /\ IsCancelled(r.q, running[p])
                    /\ r.q.queued = queued
               ELSE IF QueuedPos(Q, p) # {}
               THEN /\ r.res = TRUE
                    /\ r.q.queued = SelectSeq(queued, LAMBDA j : j.path # p)
                    /\ r.q.cancelled = cancelled
               ELSE /\ r.res = FALSE
                    /\ r.q = Q
            /\ ENABLED Cancel(p)

\* A cancel took a job out of a queue in which another job stayed behind.
C9_Witness ==
    /\ last.op = "cancel"
    /\ last.res.kind = "true"
    /\ running[last.path] = NoJob
    /\ Len(queued) > 0
    /\ \E p \in Paths : running[p] # NoJob /\ IsCancelled(Q, running[p])

(* ------------------------------------------------------------------ *)
(* Properties of the jobs and their tasks                               *)
(* ------------------------------------------------------------------ *)
InRunning(path, f) == running[path] # NoJob /\ running[path].flag = f

InQueued(path, f) == \E i \in QueuedPos(Q, path) : queued[i].flag = f

\* The task is inside the workflow: a probe is running for it.
Executing(path, f) == workers[path][f].pc \in {"meta", "probe"}

\* The task has returned from the workflow.
HasReturned(path, f) == workers[path][f].pc \in {"returned", "done"}

\* C6 (job state machine): a job moves only Queued -> Running -> finished: a
\* job whose task has returned is not promoted into running afterwards, and
\* no job moves from running back to queued.
C6_JobStateMachine ==
    [][\A p \in Paths : \A f \in Slots :
          /\ (HasReturned(p, f) /\ ~InRunning(p, f)) => ~InRunning(p, f)'
          /\ InRunning(p, f) => ~InQueued(p, f)']_vars

\* C7 (cleanup on every path): once the command of an enqueued job has run
\* complete_job after its task returned, the job is in neither queued nor
\* running.
C7_CleanupOnEveryPath ==
    \A p \in Paths : \A f \in Slots :
        workers[p][f].pc = "done" => ~InQueued(p, f) /\ ~InRunning(p, f)

\* C8 (slot gating): a task executes the workflow only while its job holds a
\* slot in running; the task of a job that is queued does no work.
C8_SlotGating ==
    \A p \in Paths : \A f \in Slots : Executing(p, f) => InRunning(p, f)

\* C10 (cancel of a queued job): the task of a job that cancel took out of
\* queued executes no stage of the workflow, before or after the cancel.
C10_QueuedCancelUnseen ==
    \A p \in Paths : \A f \in Slots :
        workers[p][f].removed => workers[p][f].pc = "start"

\* The task returns from the probe it was in, in this step.
ProbeReturns(path, f) ==
    /\ workers[path][f].pc \in {"meta", "probe"}
    /\ workers'[path][f].pc # workers[path][f].pc

\* C11 (cancel takes effect after the probe): a task whose flag is set while
\* it is inside a probe stops when the probe returns: it returns then, and
\* not with an analysis result.
C11_CancelAfterProbe ==
    [][\A p \in Paths : \A f \in Slots :
          (ProbeReturns(p, f) /\ FlagSet(p, f)) =>
              /\ workers'[p][f].pc = "returned"
              /\ workers'[p][f].res # "ok"]_vars

\* C12 (Cancelled wins): a task whose flag is set when its probe returns
\* with a failure returns Cancelled, not the failure.
C12_CancelledWins ==
    [][\A p \in Paths : \A f \in Slots :
          (ProbeReturns(p, f) /\ FlagSet(p, f)) =>
              workers'[p][f].res # "error"]_vars

\* C13 (cancel_all): after cancel_all queued is empty, every job that was in
\* running is still there with its cancel flag set, and max_parallel is as it
\* was.
C13_CancelAll ==
    [][last'.op = "cancel_all" =>
          /\ queued' = <<>>
          /\ running' = running
          /\ max_parallel' = max_parallel
          /\ \A p \in Paths : running[p] # NoJob =>
                 cancelled'[p][running[p].flag]]_vars

\* cancel_all has returned with two jobs running, both flagged.
C13_Witness ==
    /\ last.op = "cancel_all"
    /\ queued = <<>>
    /\ Cardinality(RunningPaths(Q)) >= 2
    /\ \A p \in RunningPaths(Q) : IsCancelled(Q, running[p])

\* The queue after cancel(path) and then enqueue(path, file_hash).
CancelThenEnqueue(path, file_hash) ==
    LET c == CancelJob(Q, path)
    IN  [cancel |-> c.res,
         enqueue |-> EnqueueJob(c.q, path, file_hash,
                                Min(Slots \ FlagsInQueue(c.q, path)))]

\* The job a path has in a queue that holds exactly one for it.
JobOf(q, path) ==
    IF q.running[path] # NoJob THEN q.running[path]
    ELSE q.queued[Min(QueuedPos(q, path))]

OnlyQueued(path) == running[path] = NoJob /\ QueuedPos(Q, path) # {}

\* C14 (round trip), as the code has it: cancel of a queued job followed by
\* enqueue on the same path returns Started or Queued with the file hash the
\* enqueue was given as id, and the path then has one job, whose cancel flag
\* is false.
C14_RoundTrip ==
    \A p \in Paths : \A h \in HashesOf(p) :
        OnlyQueued(p) =>
            LET r == CancelThenEnqueue(p, h)
            IN  /\ r.cancel = TRUE
                /\ r.enqueue.res.kind \in {"Started", "Queued"}
                /\ r.enqueue.res.id = h
                /\ JobsOfPath(r.enqueue.q, p) = 1
                /\ JobOf(r.enqueue.q, p).id = h
                /\ ~IsCancelled(r.enqueue.q, JobOf(r.enqueue.q, p))

\* The round trip of the job at the front of a queue of two puts the new job
\* behind the other one.
C14_Witness ==
    \E p \in Paths : \E h \in HashesOf(p) :
        /\ OnlyQueued(p)
        /\ Len(queued) = 2
        /\ queued[1].path = p
        /\ CancelThenEnqueue(p, h).enqueue.res.kind = "Queued"
        /\ CancelThenEnqueue(p, h).enqueue.q.queued[2].path = p

\* C14 (round trip), as stated: the enqueue after the cancel of a queued job
\* returns an id that differs from the id of the job that was cancelled.
C14_FreshId ==
    \A p \in Paths : \A h \in HashesOf(p) :
        OnlyQueued(p) =>
            CancelThenEnqueue(p, h).enqueue.res.id # JobOf(Q, p).id

\* C15 (idempotence): set_max_parallel(n) called again right after
\* set_max_parallel(n) leaves queued, running and max_parallel as the first
\* call left them.
C15_SetMaxIdempotent ==
    \A n \in CountInputs :
        LET once == SetMaxParallelJobs(Q, n)
        IN  SetMaxParallelJobs(once, n) = once

\* A first call that promotes a queued job, and a second that changes nothing.
C15_Witness ==
    \E n \in CountInputs :
        LET once == SetMaxParallelJobs(Q, n)
        IN  /\ Len(once.queued) < Len(queued)
            /\ RunningSize(once) > RunningSize(Q)
            /\ SetMaxParallelJobs(once, n) = once

\* C16 (set_max_parallel): max_parallel is within 1..8; the call stores n
\* clamped to 1..8; if the stored value went up, queued jobs are promoted from
\* the front until queued is empty or |running| reaches the new limit; if it
\* did not, no job is promoted.
C16_SetMaxPromotes ==
    /\ max_parallel \in MinParallel..MaxParallelCap
    /\ \A n \in CountInputs :
         LET clamped == Clamp(n, MinParallel, MaxParallelCap)
             stored == [Q EXCEPT !.max = clamped]
             after == SetMaxParallelJobs(Q, n)
         IN  /\ clamped \in MinParallel..MaxParallelCap
             /\ after.max = clamped
             /\ IF clamped > max_parallel
                THEN after = Promoted(stored, PromotedWhileFree(stored))
                ELSE after = stored

\* What set_max_parallel does hold to: the limit stays within 1..8, the stored
\* value is the clamped one, nothing is promoted unless the limit went up, and
\* what is promoted comes from the front of queued.
SetMaxPostcondition ==
    /\ max_parallel \in MinParallel..MaxParallelCap
    /\ \A n \in CountInputs :
         LET clamped == Clamp(n, MinParallel, MaxParallelCap)
             stored == [Q EXCEPT !.max = clamped]
             after == SetMaxParallelJobs(Q, n)
         IN  /\ after.max = clamped
             /\ Len(after.queued) <= Len(queued)
             /\ after = Promoted(stored, Len(queued) - Len(after.queued))
             /\ clamped <= max_parallel => after = stored

\* The paths whose job enters running in this step.
Entered == {p \in Paths : running[p] = NoJob /\ running'[p] # NoJob}

\* C17 (FIFO start order): with max_parallel fixed, a job enters running only
\* if no job enqueued before it is waiting: the jobs that enter running in a
\* step are the ones at the front of queued, or queued is empty.
C17_FifoStart ==
    [][queued # <<>> =>
          \A p \in Entered :
              \E i \in 1..Cardinality(Entered) :
                  i <= Len(queued) /\ queued[i].path = p]_vars

\* The threads that are waiting for a lock another thread holds.
Blocked(t) ==
    /\ lockers[t].pc # Idle
    /\ \A e \in NextEdges(t) : ~CanTake(t, e)

\* The threads that hold a lock the thread is waiting for.
Blockers(t) ==
    {u \in Threads \ {t} : \E e \in NextEdges(t) :
        <<e.lock, "lock">> \in lockers[u].held \/ <<e.lock, "read">> \in lockers[u].held}

HoldsShard(t) ==
    \E s \in Shards : <<Shard(s), "lock">> \in lockers[t].held
                     \/ <<Shard(s), "read">> \in lockers[t].held

\* C18 (deadlock freedom): however the calls interleave, every call has a
\* next step, there is no set of threads that wait for locks held within the
\* set, and no thread about to lock the queued mutex holds a shard lock of
\* running.
C18_DeadlockFree ==
    /\ \A t \in Threads : lockers[t].pc # Idle => NextEdges(t) # {}
    /\ \A S \in SUBSET Threads \ {{}} :
         ~ \A t \in S : Blocked(t) /\ Blockers(t) \subseteq S
    /\ \A t \in Threads : \A e \in NextEdges(t) :
         (e.act = "lock" /\ e.lock = QueuedMutex) => ~HoldsShard(t)

\* A get_queue_status that holds the queued mutex waits for a shard that an
\* enqueue holds for its entry.
C18_Witness ==
    \E t \in Threads : \E u \in Threads \ {t} :
        /\ lockers[t].op = "get_queue_status"
        /\ <<QueuedMutex, "lock">> \in lockers[t].held
        /\ Blocked(t)
        /\ lockers[u].op = "enqueue"
        /\ lockers[u].pc = <<"entry", 0, 1>>
        /\ u \in Blockers(t)

\* The call of get on the path returns the entry of the cache.
CacheHit(path, ok) == GetProbeData(probe_cache, path, ok).was_cached

\* C19 (cache coherence): get never returns as a hit an entry whose stored
\* mtime differs from the mtime the call reads, an unavailable mtime being
\* different from every available one.
C19_CacheCoherence ==
    \A p \in CachePaths : \A ok \in BOOLEAN :
        CacheHit(p, ok) => probe_cache[p].file_mtime = GetFileMtime(p)

\* C20 (cache hit rule): get returns the entry without a probe exactly if
\* there is an entry younger than CACHE_MAX_AGE whose stored mtime is the
\* current one; otherwise it probes once, and on success stores an entry with
\* the mtime it read and the current time and reports was_cached = false; on
\* failure it returns the error and leaves the cache as it was.
C20_CacheHitRule ==
    \A p \in CachePaths : \A ok \in BOOLEAN :
        LET r == GetProbeData(probe_cache, p, ok)
            entry == probe_cache[p]
            fresh == /\ entry.present
                     /\ clock - entry.cached_at < CacheMaxAge
                     /\ entry.file_mtime = GetFileMtime(p)
        IN  IF fresh
            THEN /\ r.was_cached /\ r.probes = 0 /\ r.kind = "ok"
                 /\ r.data = entry.json_data /\ r.cache = probe_cache
            ELSE /\ ~r.was_cached /\ r.probes = 1
                 /\ IF RunFFprobe(p, ok) # NoContent
                    THEN /\ r.kind = "ok" /\ r.data = RunFFprobe(p, ok)
                         /\ r.cache = [probe_cache EXCEPT ![p] =
                                [json_data |-> RunFFprobe(p, ok),
                                 file_mtime |-> GetFileMtime(p),
                                 cached_at |-> clock, present |-> TRUE]]
                    ELSE r.kind = "error" /\ r.cache = probe_cache

\* What get does hold to: a hit is an entry not older than CACHE_MAX_AGE
\* whose stored and current mtime do not both exist and differ; any other call
\* probes once, stores on success and stores nothing on failure.
CacheHitAsCoded ==
    \A p \in CachePaths : \A ok \in BOOLEAN :
        LET r == GetProbeData(probe_cache, p, ok)
            entry == probe_cache[p]
            valid == /\ entry.present
                     /\ clock - entry.cached_at <= CacheMaxAge
                     /\ \/ entry.file_mtime = GetFileMtime(p)
                        \/ entry.file_mtime = NoMtime
                        \/ GetFileMtime(p) = NoMtime
        IN  IF valid
            THEN /\ r.was_cached /\ r.probes = 0 /\ r.cache = probe_cache
            ELSE /\ ~r.was_cached /\ r.probes = 1
                 /\ r.kind = "error" => r.cache = probe_cache
                 /\ r.kind = "ok" =>
                        /\ r.cache[p].file_mtime = GetFileMtime(p)
                        /\ r.cache[p].cached_at = clock

(* ------------------------------------------------------------------ *)
(* Properties of the ffprobe cache while a file is rewritten            *)
(* ------------------------------------------------------------------ *)

\* The entry of the path holds what ffprobe reported for an earlier content
\* of the file.
StaleEntry(path) ==
    /\ probe_cache[path].present
    /\ probe_cache[path].json_data # files[path].content

\* C21: once remove_streams has replaced a file, called invalidate_cache
\* for its path and returned, the cache holds no entry for the path with
\* probe output obtained before the rewrite, whatever calls of
\* get_probe_data were in progress during the rewrite.
C21_InvalidateCoherence == \A p \in rewriter.done : ~StaleEntry(p)

(* ------------------------------------------------------------------ *)
(* Properties of the progress of a job                                  *)
(* ------------------------------------------------------------------ *)

\* The job with the flag is in running before and after the step.
StaysRunning(path, f) ==
    /\ running[path] # NoJob /\ running[path].flag = f
    /\ running'[path] # NoJob /\ running'[path].flag = f

\* The events of one task: the first is 0 %, none is lower than the one
\* before it, and the task returns its result right after 100 %.
EventsInOrder ==
    [][\A p \in Paths : \A f \in Slots :
          /\ (emitted[p][f] = NoEvent /\ emitted'[p][f] # NoEvent)
                => emitted'[p][f] = 0
          /\ emitted'[p][f] # NoEvent => emitted'[p][f] >= emitted[p][f]
          /\ (workers[p][f].res # "ok" /\ workers'[p][f].res = "ok")
                => emitted'[p][f] = 100]_vars

\* C22: within one job the percentages of the bitrate-progress events and
\* those written to the job's progress slot never go down: they start at 0,
\* follow the stages, end with 100 on success, and on an error or a
\* cancellation no lower percentage follows a higher one.
C22_ProgressMonotonic ==
    [][\A p \in Paths : \A f \in Slots :
          /\ (emitted[p][f] = NoEvent /\ emitted'[p][f] # NoEvent)
                => emitted'[p][f] = 0
          /\ emitted'[p][f] # NoEvent => emitted'[p][f] >= emitted[p][f]
          /\ (workers[p][f].res # "ok" /\ workers'[p][f].res = "ok")
                => emitted'[p][f] = 100
          /\ StaysRunning(p, f) => progress'[p][f] >= progress[p][f]]_vars

(* ------------------------------------------------------------------ *)
(* Properties of the stream probes                                      *)
(* ------------------------------------------------------------------ *)

\* The selected streams whose probe succeeded, and those whose probe failed.
Succeeded == {i \in DOMAIN overall.status : overall.status[i] = "ok"}

Failed == {i \in DOMAIN overall.status : overall.status[i] = "failed"}

\* C23: an analyze_overall whose job is not cancelled skips the selected
\* streams whose probe failed: it fails exactly if no selected stream was
\* analysed, and on success its stream_contributions are exactly the streams
\* whose probe succeeded. analyze_stream fails when its one probe fails.
C23_OverallFailurePolicy ==
    (overall.pc = "returned" /\ ~overall.flag) =>
        IF overall.kind = "overall"
        THEN /\ overall.result.kind = "error" <=> Succeeded = {}
             /\ overall.result.kind \in {"ok", "error"}
             /\ overall.result.kind = "ok" =>
                    overall.result.stream_contributions = Succeeded
             /\ Succeeded \cup Failed = AnalysisStreams(overall.types)
        ELSE overall.result.kind = "error" <=> Failed # {}

\* An analyze_overall that was not cancelled returned its result with one
\* stream skipped after a failed probe and another one analysed.
C23_Witness ==
    /\ overall.pc = "returned" /\ overall.kind = "overall" /\ ~overall.flag
    /\ Failed # {} /\ Succeeded # {}
    /\ overall.result.kind = "ok"

(* ------------------------------------------------------------------ *)
(* Properties of the probe modes                                        *)
(* ------------------------------------------------------------------ *)

\* The mode is among the modes the call invoked.
Invoked(call, mode) == \E i \in DOMAIN call.out.invoked : call.out.invoked[i] = mode

\* C24: parse_ffprobe_auto without prefer_accuracy tries packet mode first
\* and invokes frame mode exactly if packet mode returned an error or
\* nothing; it returns the packet result if that is a non-empty success and
\* the outcome of frame mode otherwise, so it fails only if both modes fail.
\* With prefer_accuracy it never invokes packet mode.
C24_AutoFallback ==
    parsed.op = "auto" =>
        LET packets == ParseFFprobePackets(parsed.packet_run)
            frames == ParseFFprobeFrames(parsed.frame_run)
            good == packets.kind = "ok" /\ packets.data # <<>>
        IN  IF parsed.prefer_accuracy
            THEN /\ ~Invoked(parsed, "packets")
                 /\ parsed.out.result = frames
            ELSE /\ parsed.out.invoked[1] = "packets"
                 /\ Invoked(parsed, "frames") <=> ~good
                 /\ parsed.out.result = IF good THEN packets ELSE frames
                 /\ parsed.out.result.kind = "error" =>
                        packets.kind = "error" /\ frames.kind = "error"

\* Packet mode failed and the call returned the frames of frame mode.
C24_Witness ==
    /\ parsed.op = "auto" /\ ~parsed.prefer_accuracy
    /\ ParseFFprobePackets(parsed.packet_run).kind = "error"
    /\ parsed.out.result = Ok(FrameRows)
    /\ parsed.out.invoked = <<"packets", "frames">>

\* The packets of the samples in good, in the order of their positions.
RECURSIVE GoodPackets(_, _, _)
GoodPackets(i, duration, good) ==
    IF i < 0 THEN <<>>
    ELSE GoodPackets(i - 1, duration, good)
            \o (IF i \in good THEN SampleRows(ReadInterval(i, duration)) ELSE <<>>)

\* C25: parse_ffprobe_sampled returns the full packet data with sampled =
\* false if the file is smaller than 5 GiB, or not longer than 300 s, or if
\* all 10 samples fail (then after one full probe, whose error is the
\* error of the call); otherwise it runs 10 sample probes at the positions
\* i * (duration / 10) with the read interval "<position>%+30" and returns
\* the packets of the samples that succeeded, in the order of the
\* positions, with sampled = true. sampled is true exactly if a sample
\* succeeded.
C25_SamplingDecision ==
    parsed.op = "sampled" =>
        LET out == parsed.out
            full == ParseFFprobePackets(parsed.full_run)
            small == parsed.file_size < 5 * 1024
            short == parsed.duration <= 300
        IN  IF small \/ short
            THEN out.result = full /\ ~out.sampled /\ out.probes = <<FullProbe>>
            ELSE /\ Len(out.probes) >= 10
                 /\ \A i \in 0..9 :
                       /\ out.probes[i + 1].start_tenths * 10 = i * parsed.duration * 10
                       /\ out.probes[i + 1].seconds = 30
                 /\ IF parsed.good = {}
                    THEN /\ out.result = full /\ ~out.sampled
                         /\ Len(out.probes) = 11 /\ out.probes[11] = FullProbe
                    ELSE /\ out.result = Ok(GoodPackets(9, parsed.duration, parsed.good))
                         /\ out.sampled
                         /\ Len(out.probes) = 10
                 /\ out.sampled <=> parsed.good # {}

\* A file of 6 GiB and 600 s of which the first and the last sample
\* succeeded and the others failed.
C25_Witness ==
    /\ parsed.op = "sampled"
    /\ parsed.file_size = 6 * 1024 /\ parsed.duration = 600
    /\ parsed.good = {0, 9}
    /\ parsed.out.sampled
    /\ Len(parsed.out.result.data) = 4

(* ------------------------------------------------------------------ *)
(* Properties of the ffprobe child                                      *)
(* ------------------------------------------------------------------ *)

\* The caller waits for the child or for a drainer.
Waiting == probe.pc \in {"loop", "sleep", "join_stdout", "join_stderr"}

\* The child cannot go on before somebody reads from the pipe.
BlockedOn(s) ==
    /\ probe.child = "running"
    /\ probe.left[s] > 0
    /\ probe.buf[s] = PipeCapacity
    /\ probe.reader[s] # "panicked"

\* C26: the threads that drain stdout and stderr are started before the
\* caller first waits for the child; the child is never blocked on a full
\* pipe that nobody drains while the caller waits; and a panic of one
\* drainer does not keep the other from being joined.
C26_NoPipeDeadlock ==
    /\ Waiting => probe.reader.out # "none" /\ probe.reader.err # "none"
    /\ \A s \in PipeNames : (Waiting /\ BlockedOn(s)) => probe.reader[s] = "reading"
    /\ (probe.pc = "returned" /\ probe.result \in {"ok", "empty", "failed"})
          => probe.joined = PipeNames
    /\ (probe.pc = "join_stderr" /\ probe.reader.out = "panicked")
          => "out" \in probe.joined

\* The child wrote more than a pipe holds, the stderr drainer panicked, and
\* the call returned the result after joining both threads.
C26_Witness ==
    /\ probe.pc = "returned" /\ probe.result = "ok"
    /\ probe.got.out > PipeCapacity
    /\ probe.reader.err = "panicked"
    /\ probe.joined = PipeNames

\* C27: the timeouts are firm (180 s in packet mode, 300 s in frame mode):
\* once the caller has seen the deadline exceeded it kills the child and
\* returns the timeout, never a result, and it never polls the child later
\* than one poll sleep after the deadline.
C27_FirmTimeout ==
    probe.mode \in Modes =>
        LET deadline == IF probe.mode = "packets" THEN 180000 ELSE 300000
            sleep == IF probe.mode = "packets" THEN 50 ELSE 100
        IN  /\ probe.checked_at > deadline =>
                 /\ probe.pc = "returned"
                 /\ probe.result = "timeout"
                 /\ probe.child # "running"
            /\ probe.result = "timeout" => probe.checked_at > deadline
            /\ probe.polled_at <= deadline + sleep

\* The caller woke up after the deadline while the child was running, and
\* returned the timeout with the child killed.
C27_Witness ==
    /\ probe.pc = "returned" /\ probe.result = "timeout"
    /\ probe.child = "killed"
    /\ probe.checked_at > Timeout(probe.mode)
    /\ probe.polled_at = Timeout(probe.mode)

(* ------------------------------------------------------------------ *)
(* Properties of the aggregation and of the statistics                  *)
(* ------------------------------------------------------------------ *)

RECURSIVE SumSizes(_, _)
SumSizes(frames, k) == IF k = 0 THEN 0 ELSE SumSizes(frames, k - 1) + frames[k][2]

RECURSIVE SumBuckets(_, _)
SumBuckets(intervals, k) ==
    IF k = 0 THEN 0 ELSE SumBuckets(intervals, k - 1) + intervals[k][1]

\* All timestamps lie in [0, duration).
InsideDuration(frames, duration) ==
    \A k \in DOMAIN frames : 0 <= frames[k][1] /\ frames[k][1] < duration

\* C28: for frames that are not empty and whose timestamps lie in
\* [0, duration), the bytes of the buckets add up to the sizes of the
\* frames, also if the duration is not a multiple of the interval.
C28_AggregationConservation ==
    (/\ parsed.op = "aggregate"
     /\ parsed.frames # <<>>
     /\ InsideDuration(parsed.frames, parsed.duration))
        => SumBuckets(parsed.out.intervals, Len(parsed.out.intervals))
              = SumSizes(parsed.frames, Len(parsed.frames))

\* Two frames in different buckets of a duration of 1.5 s with an interval
\* of 1 s, both counted.
C28_Witness ==
    /\ parsed.op = "aggregate"
    /\ parsed.duration = 15 /\ parsed.interval = 10
    /\ Len(parsed.frames) = 2
    /\ parsed.frames[1][1] = 12 /\ parsed.frames[2][1] = 3
    /\ parsed.out.intervals[1][1] > 0 /\ parsed.out.intervals[2][1] > 0

\* The bytes of the frames k..Len(frames) with floor(ts / interval) = i.
RECURSIVE BucketBytes(_, _, _, _)
BucketBytes(frames, k, interval, i) ==
    IF k > Len(frames) THEN 0
    ELSE (IF FloorDiv(frames[k][1], interval) = i THEN frames[k][2] ELSE 0)
            + BucketBytes(frames, k + 1, interval, i)

\* The frame type of the first frame from k on with floor(ts / interval) = i
\* that carries one.
RECURSIVE BucketType(_, _, _, _)
BucketType(frames, k, interval, i) ==
    IF k > Len(frames) THEN NoType
    ELSE IF FloorDiv(frames[k][1], interval) = i /\ frames[k][3] # NoType
         THEN frames[k][3]
         ELSE BucketType(frames, k + 1, interval, i)

\* The points of a call have the shape the buckets floor(ts / interval)
\* prescribe.
ShapeOf(call) ==
    LET points == call.out.data_points
        n == CeilDiv(call.duration, call.interval)
    IN  /\ call.frames = <<>> => points = <<>>
        /\ call.duration = 0 => points = <<>>
        /\ call.frames # <<>> =>
              /\ Len(points) = n
              /\ \A i \in 0..(n - 1) :
                    /\ points[i + 1].timestamp = i * call.interval
                    /\ points[i + 1].bitrate =
                          FloorDiv(BucketBytes(call.frames, 1, call.interval, i)
                                      * 8 * PerSecond, call.interval)
                    /\ points[i + 1].frame_type =
                          BucketType(call.frames, 1, call.interval, i)

\* C29: aggregate returns ceil(duration / interval) points for frames that
\* are not empty; point i has timestamp i * interval, the bitrate of the
\* bytes of the frames with floor(ts / interval) = i and the type of the
\* first such frame that carries one; frames of a bucket >= n are dropped;
\* no frames or a duration of zero give no points.
C29_AggregatorShape == parsed.op = "aggregate" => ShapeOf(parsed)

\* The shape holds for the calls whose frames all have a timestamp >= 0.
ShapeFromZero ==
    (/\ parsed.op = "aggregate"
     /\ \A k \in DOMAIN parsed.frames : parsed.frames[k][1] >= 0)
        => ShapeOf(parsed)

\* The sorted copy of the bitrates of a call: the same values, in order.
IsSortedCopy(sorted, bitrates) ==
    /\ Len(sorted) = Len(bitrates)
    /\ \A i, j \in DOMAIN sorted : i <= j => sorted[i] <= sorted[j]
    /\ \A b \in Bitrates :
          Cardinality({i \in DOMAIN sorted : sorted[i] = b})
             = Cardinality({i \in DOMAIN bitrates : bitrates[i] = b})

\* C30: for n > 0 points, min and max are the smallest and the largest
\* bitrate, avg is floor(sum / n), median is the middle element of the
\* sorted copy for odd n and the floor of half the sum of the two middle
\* elements for even n, total_frames is n; hence min <= median <= max and
\* min <= avg <= max, and the deviation is 0 if all values are the same.
\* For no points every field is zero and there are no peaks.
C30_Statistics ==
    parsed.op = "statistics" =>
        LET b == parsed.bitrates
            n == Len(b)
            o == parsed.out
        IN  IF n = 0
            THEN /\ o.min_bitrate = 0 /\ o.max_bitrate = 0 /\ o.avg_bitrate = 0
                 /\ o.median_bitrate = 0 /\ o.std_deviation = 0
                 /\ o.total_frames = 0 /\ o.peak_intervals = <<>>
            ELSE /\ \E i \in 1..n : o.min_bitrate = b[i]
                 /\ \A i \in 1..n : o.min_bitrate <= b[i]
                 /\ \E i \in 1..n : o.max_bitrate = b[i]
                 /\ \A i \in 1..n : o.max_bitrate >= b[i]
                 /\ o.avg_bitrate * n <= SumOf(b, n)
                 /\ SumOf(b, n) < (o.avg_bitrate + 1) * n
                 /\ \E sorted \in [1..n -> Bitrates] :
                       /\ IsSortedCopy(sorted, b)
                       /\ IF n % 2 = 1
                          THEN o.median_bitrate = sorted[(n + 1) \div 2]
                          ELSE /\ 2 * o.median_bitrate
                                     <= sorted[n \div 2] + sorted[(n \div 2) + 1]
                               /\ sorted[n \div 2] + sorted[(n \div 2) + 1]
                                     < 2 * o.median_bitrate + 2
                 /\ o.total_frames = n
                 /\ o.min_bitrate <= o.median_bitrate
                 /\ o.median_bitrate <= o.max_bitrate
                 /\ o.min_bitrate <= o.avg_bitrate
                 /\ o.avg_bitrate <= o.max_bitrate
                 /\ (\A i \in 1..n : b[i] = b[1]) => o.std_deviation = 0

\* An even number of points in no order whose middle sum is odd: the median
\* is rounded down.
C30_Witness ==
    /\ parsed.op = "statistics"
    /\ parsed.bitrates = <<5, 2>>
    /\ parsed.out.median_bitrate = 3
    /\ parsed.out.avg_bitrate = 3
    /\ parsed.out.std_deviation > 0

\* A peak of 6 s is recorded.
PeakRecorded == parsed.op = "statistics" /\ parsed.out.peak_intervals # <<>>

(* ------------------------------------------------------------------ *)
(* Properties of the peaks                                              *)
(* ------------------------------------------------------------------ *)

\* The threshold of a call: floor(1.5 * avg).
ThresholdOf(call) == (call.out.avg_bitrate * 3) \div 2

\* The points of a call from start_time up to, not including, end_time.
PointsIn(call, start_time, end_time) ==
    {i \in DOMAIN call.data_points :
        /\ start_time <= call.data_points[i].timestamp
        /\ call.data_points[i].timestamp < end_time}

\* C31: every peak interval has end > start and duration = end - start >
\* 5 s; all points from start up to end are above floor(1.5 * avg), the
\* point at end is not; peak_bitrate is the largest bitrate of the points
\* of the interval; the intervals are disjoint and in the order of time.
C31_PeakClosure ==
    parsed.op = "summarize" =>
        LET points == parsed.data_points
            peaks == parsed.out.peak_intervals
            threshold == ThresholdOf(parsed)
        IN  /\ \A j \in DOMAIN peaks :
                 LET peak == peaks[j]
                     inside == PointsIn(parsed, peak.start_time, peak.end_time)
                 IN  /\ peak.end_time > peak.start_time
                     /\ peak.duration = peak.end_time - peak.start_time
                     /\ peak.duration > 5 * PerSecond
                     /\ inside # {}
                     /\ \A i \in inside : points[i].bitrate > threshold
                     /\ \E i \in DOMAIN points :
                           /\ points[i].timestamp = peak.end_time
                           /\ points[i].bitrate <= threshold
                     /\ \E i \in inside : points[i].bitrate = peak.peak_bitrate
                     /\ \A i \in inside : points[i].bitrate <= peak.peak_bitrate
            /\ \A j \in DOMAIN peaks : \A k \in DOMAIN peaks :
                  j < k => peaks[j].end_time <= peaks[k].start_time

\* A peak of two points whose second is the larger one.
C31_Witness ==
    /\ parsed.op = "summarize"
    /\ Len(parsed.out.peak_intervals) = 1
    /\ parsed.data_points[1].bitrate = 2
    /\ parsed.out.peak_intervals[1].start_time = 0
    /\ parsed.out.peak_intervals[1].peak_bitrate = 5

\* Two peaks in one series.
TwoPeaks == parsed.op = "summarize" /\ Len(parsed.out.peak_intervals) = 2

\* The first points of the runs of a call: points above the threshold whose
\* predecessor, if any, is not.
RunStarts(call) ==
    {a \in DOMAIN call.data_points :
        /\ call.data_points[a].bitrate > ThresholdOf(call)
        /\ a > 1 => call.data_points[a - 1].bitrate <= ThresholdOf(call)}

\* The points after a at or below the threshold.
Closers(call, a) ==
    {c \in DOMAIN call.data_points :
        c > a /\ call.data_points[c].bitrate <= ThresholdOf(call)}

\* The first of them, which closes the run that starts at a.
Closer(call, a) == CHOOSE c \in Closers(call, a) : \A d \in Closers(call, a) : c <= d

\* The runs that are closed more than 5 s after their first point, as
\* <<start, end>>.
ClosedLongRuns(call) ==
    {<<call.data_points[a].timestamp, call.data_points[Closer(call, a)].timestamp>> :
        a \in {r \in RunStarts(call) :
                  /\ Closers(call, r) # {}
                  /\ call.data_points[Closer(call, r)].timestamp
                        - call.data_points[r].timestamp > 5 * PerSecond}}

\* C32: the peaks are exactly the maximal runs of points above
\* floor(1.5 * avg) that a later point at or below it closes more than 5 s
\* after the first point of the run; a run that is open at the last point is
\* not reported, nor is a closed run of 5 s or less.
C32_PeakCompleteness ==
    parsed.op = "summarize" =>
        LET points == parsed.data_points
            peaks == parsed.out.peak_intervals
            reported == {<<peaks[j].start_time, peaks[j].end_time>> : j \in DOMAIN peaks}
        IN  /\ reported = ClosedLongRuns(parsed)
            /\ Len(peaks) = Cardinality(reported)
            /\ \A a \in RunStarts(parsed) :
                  \/ Closers(parsed, a) # {}
                  \/ \A j \in DOMAIN peaks : peaks[j].start_time # points[a].timestamp
            /\ \A a \in RunStarts(parsed) :
                  \/ Closers(parsed, a) = {}
                  \/ points[Closer(parsed, a)].timestamp - points[a].timestamp
                        > 5 * PerSecond
                  \/ \A j \in DOMAIN peaks : peaks[j].start_time # points[a].timestamp

\* A series with a reported peak and a run that is open at the last point.
C32_Witness ==
    /\ parsed.op = "summarize"
    /\ Len(parsed.data_points) = 4
    /\ Len(parsed.out.peak_intervals) = 1
    /\ Cardinality(RunStarts(parsed)) = 2
    /\ \E a \in RunStarts(parsed) : Closers(parsed, a) = {}

\* A closed run of exactly 5 s, which is not reported.
ShortRunClosed ==
    /\ parsed.op = "summarize"
    /\ parsed.out.peak_intervals = <<>>
    /\ \E a \in RunStarts(parsed) :
          /\ Closers(parsed, a) # {}
          /\ parsed.data_points[Closer(parsed, a)].timestamp
                - parsed.data_points[a].timestamp = 5 * PerSecond

(* ------------------------------------------------------------------ *)
(* Properties of the extrapolation                                      *)
(* ------------------------------------------------------------------ *)

\* The sampled frames of a call that bucket i received: those whose index
\* floor(ts / interval), cast to usize, is i.
ReceivedBy(call, i) ==
    {k \in DOMAIN call.sampled_data :
        AsUsize(FloorDiv(call.sampled_data[k][1], call.interval)) = i}

RECURSIVE BytesOf(_, _)
BytesOf(call, ks) ==
    IF ks = {} THEN 0
    ELSE LET k == CHOOSE x \in ks : TRUE
         IN  call.sampled_data[k][2] + BytesOf(call, ks \ {k})

\* C33: for sampled frames that are not empty, extrapolate returns
\* ceil(full_duration / interval) points with timestamps i * interval and no
\* frame type; a bucket that received a frame has the bitrate of its bytes,
\* every other bucket has floor(total bytes * 8 / sampled_duration), which
\* is 0 for a sampled_duration of 0. No sampled frames give no points.
C33_Extrapolation ==
    parsed.op = "extrapolate" =>
        LET points == parsed.out
            n == CeilDiv(parsed.full_duration, parsed.interval)
            total == BytesOf(parsed, DOMAIN parsed.sampled_data)
        IN  IF parsed.sampled_data = <<>> THEN points = <<>>
            ELSE /\ Len(points) = n
                 /\ \A i \in 0..(n - 1) :
                       /\ points[i + 1].timestamp = i * parsed.interval
                       /\ points[i + 1].frame_type = NoType
                       /\ IF ReceivedBy(parsed, i) # {}
                          THEN points[i + 1].bitrate =
                                  FloorDiv(BytesOf(parsed, ReceivedBy(parsed, i))
                                              * 8 * PerSecond, parsed.interval)
                          ELSE IF parsed.sampled_duration = 0
                               THEN points[i + 1].bitrate = 0
                               ELSE /\ points[i + 1].bitrate * parsed.sampled_duration
                                          <= total * 8 * PerSecond
                                    /\ total * 8 * PerSecond
                                          < (points[i + 1].bitrate + 1)
                                               * parsed.sampled_duration

\* One bucket with the bitrate of its frame and one filled with the average
\* of the samples.
C33_Witness ==
    /\ parsed.op = "extrapolate"
    /\ parsed.sampled_data = <<<<12, 1000, NoType>>>>
    /\ parsed.sampled_duration = 30 /\ parsed.interval = 10
    /\ Len(parsed.out) = 2
    /\ parsed.out[1].bitrate = 2666
    /\ parsed.out[2].bitrate = 8000

(* ------------------------------------------------------------------ *)
(* Properties of the combination of the streams                         *)
(* ------------------------------------------------------------------ *)

RECURSIVE SumOver(_, _)
SumOver(f, set) ==
    IF set = {} THEN 0
    ELSE LET x == CHOOSE y \in set : TRUE IN f[x] + SumOver(f, set \ {x})

\* C34: in an analyze_overall that returned its result, combined bucket i is
\* the sum of bucket i of exactly the analysed streams, so the totals of the
\* streams add up to the combined total; the percentage of a stream is
\* stream_total / combined_total * 100, summing to 100, or 0 for every
\* stream if the combined total is 0; every series has
\* ceil(duration / interval) points.
C34_Combination ==
    (overall.pc = "returned" /\ overall.kind = "overall"
        /\ overall.result.kind = "ok") =>
        LET c == overall.combination
            n == CeilDiv(overall.duration, overall.interval)
            contributions == c.stream_contributions
            totals == [s \in DOMAIN contributions |-> contributions[s].stream_total]
            nums == [s \in DOMAIN contributions |-> contributions[s].percentage.num]
        IN  /\ c.kind = "ok"
            /\ DOMAIN contributions = Succeeded
            /\ Len(c.combined_intervals) = n
            /\ Len(c.data_points) = n
            /\ \A s \in Succeeded :
                  /\ Len(contributions[s].intervals) = n
                  /\ Len(contributions[s].data_points) = n
            /\ \A i \in 1..n :
                  c.combined_intervals[i] =
                     SumOver([s \in Succeeded |-> contributions[s].intervals[i]],
                             Succeeded)
            /\ SumOver(totals, Succeeded) = c.combined_total
            /\ \A s \in Succeeded :
                  IF c.combined_total > 0
                  THEN /\ contributions[s].percentage.den = c.combined_total
                       /\ contributions[s].percentage.num = totals[s] * 100
                  ELSE contributions[s].percentage.num = 0
            /\ c.combined_total > 0 =>
                  SumOver(nums, Succeeded) = 100 * c.combined_total

\* Two analysed streams with different shares next to a stream whose probe
\* failed, over a duration of 1.5 intervals.
C34_Witness ==
    /\ overall.pc = "returned" /\ overall.kind = "overall"
    /\ overall.result.kind = "ok"
    /\ overall.duration = 15
    /\ Cardinality(Succeeded) = 2 /\ Failed # {}
    /\ overall.combination.combined_total = 4000
    /\ \E s \in Succeeded :
          overall.combination.stream_contributions[s].percentage
             = [num |-> 100000, den |-> 4000]

\* No byte falls into the duration: every percentage is 0.
NoBytesCombined ==
    /\ overall.pc = "returned" /\ overall.kind = "overall"
    /\ overall.result.kind = "ok"
    /\ overall.combination.combined_total = 0
    /\ Succeeded # {}

(* ------------------------------------------------------------------ *)
(* bitrate/cache.rs: compute_file_hash                                  *)
(* ------------------------------------------------------------------ *)

\* File sizes and offsets are counted in blocks of 4 KiB: the first 8192
\* bytes are 2 blocks, and the last 8192 bytes are read from files of more
\* than 16384 bytes, 4 blocks.
SampleBlocks == 2

LargeBlocks == 4

\* Modification times are counted in half seconds from the epoch; the times
\* below 0 are before 1970.
HalfSeconds == 2

DiskMtimes == {-3, -1, 0, 1, 2}

\* What is at the path: a file that can be read, nothing, a file that cannot
\* be opened, a file whose reads fail.
DiskKinds == {"file", "missing", "denied", "ioerror"}

BlockValues == {0, 1}

\* metadata.modified() as seconds since the epoch:
\* duration_since(UNIX_EPOCH).unwrap_or_default().as_secs().
MtimeSecs(mtime) == IF mtime < 0 THEN 0 ELSE mtime \div HalfSeconds

\* 8192.min(file_size as usize)
FirstLen(file_size) == IF file_size < SampleBlocks THEN file_size ELSE SampleBlocks

\* Sha256 over the bytes fed to the hasher, taken as injective: the digest
\* stands for its input.
Sha256(input) == [sha256 |-> input]

\* compute_file_hash: metadata, open, the first bytes, the last bytes of a
\* large file, and the digest of size, mtime, first and last bytes.
ComputeFileHash(f) ==
    IF f.kind = "missing" THEN Err("Failed to get metadata")
    ELSE IF f.kind = "denied" THEN Err("Failed to open file")
    ELSE IF f.kind = "ioerror" /\ FirstLen(f.size) > 0
    THEN Err("Failed to read first bytes")
    ELSE LET file_size == f.size
             mtime == MtimeSecs(f.mtime)
             first_bytes == SubSeq(f.content, 1, FirstLen(file_size))
             last_bytes == IF file_size > LargeBlocks
                           THEN SubSeq(f.content, file_size - SampleBlocks + 1, file_size)
                           ELSE <<>>
         IN  Ok(Sha256(<<file_size, mtime>> \o first_bytes \o last_bytes))

HashCommit(d, h) ==
    /\ disk' = d
    /\ hashed' = h
    /\ UNCHANGED <<getters, rewriter, progress, emitted, overall, parsed, probe>>
    /\ UNCHANGED queueVars
    /\ UNCHANGED cacheVars

\* Something outside the program changes what is at the path; at most
\* MaxEdits changes happen between two calls of compute_file_hash.
DiskEdit(d) ==
    /\ hashed.edits < MaxEdits
    /\ HashCommit(d, [hashed EXCEPT !.edits = @ + 1])

\* The modification time is set.
Touch(mtime) ==
    /\ disk.kind # "missing"
    /\ mtime # disk.mtime
    /\ DiskEdit([disk EXCEPT !.mtime = mtime])

\* A block of the file is overwritten.
WriteBlock(i, v) ==
    /\ disk.kind # "missing"
    /\ i \in 1..disk.size
    /\ disk.content[i] # v
    /\ DiskEdit([disk EXCEPT !.content[i] = v])

\* A block is appended to the file.
AppendBlock(v) ==
    /\ disk.kind # "missing"
    /\ disk.size < MaxBlocks
    /\ DiskEdit([disk EXCEPT !.size = @ + 1, !.content = Append(@, v)])

\* The last block of the file is cut off.
Truncate ==
    /\ disk.kind # "missing"
    /\ disk.size > 0
    /\ DiskEdit([disk EXCEPT !.size = @ - 1,
                             !.content = SubSeq(@, 1, disk.size - 1)])

\* The file becomes readable, impossible to open, or its reads fail.
Chmod(kind) ==
    /\ disk.kind # "missing"
    /\ kind # disk.kind
    /\ DiskEdit([disk EXCEPT !.kind = kind])

\* The file is removed.
Remove ==
    /\ disk.kind # "missing"
    /\ DiskEdit(NoFile)

\* An empty file is created.
Create(mtime) ==
    /\ disk.kind = "missing"
    /\ DiskEdit([kind |-> "file", size |-> 0, mtime |-> mtime, content |-> <<>>])

\* A call of compute_file_hash for the path.
HashFile ==
    HashCommit(disk, [file |-> disk, result |-> ComputeFileHash(disk), edits |-> 0])

NextHash ==
    \/ \E mtime \in DiskMtimes : Touch(mtime)
    \/ \E i \in 1..MaxBlocks : \E v \in BlockValues : WriteBlock(i, v)
    \/ \E v \in BlockValues : AppendBlock(v)
    \/ Truncate
    \/ \E kind \in DiskKinds \ {"missing"} : Chmod(kind)
    \/ Remove
    \/ \E mtime \in DiskMtimes : Create(mtime)
    \/ HashFile

SpecHash == Init /\ [][NextHash]_vars

(* ------------------------------------------------------------------ *)
(* Properties of the file hash                                          *)
(* ------------------------------------------------------------------ *)

\* What the hash is said to depend on: the size, the whole seconds of the
\* mtime since the epoch, the first min(8 KiB, size) bytes and, of a file of
\* more than 16 KiB, the last 8 KiB.
SampledOf(f) ==
    <<f.size, FloorDiv(f.mtime, HalfSeconds),
      SubSeq(f.content, 1, IF f.size < SampleBlocks THEN f.size ELSE SampleBlocks),
      IF f.size > LargeBlocks
      THEN SubSeq(f.content, f.size - SampleBlocks + 1, f.size) ELSE <<>>>>

\* Getting the metadata, opening the file or a read of it fails.
StatOrReadFails(f) ==
    \/ f.kind = "missing"
    \/ f.kind = "denied"
    \/ f.kind = "ioerror" /\ f.size > 0

\* The step is a call of compute_file_hash.
HashStep == disk' = disk /\ hashed'.file = disk /\ hashed'.edits = 0

\* Two calls in a row that both returned a hash return the same hash
\* exactly if the two files agree in what the hash is said to depend on.
SameHashIffSameSample ==
    (hashed.result.kind = "ok" /\ hashed'.result.kind = "ok") =>
        (hashed.result.data = hashed'.result.data
            <=> SampledOf(hashed.file) = SampledOf(hashed'.file))

\* C35: the hash is a function of exactly size, mtime in seconds, the first
\* min(8 KiB, size) bytes and the last 8 KiB of a file of more than 16 KiB:
\* hashing a file twice without a change gives the same hash, a change of
\* the size, the mtime or a sampled byte gives another one, and a failure of
\* stat or of a read gives an error and no hash.
C35_HashStability ==
    [][HashStep =>
          /\ SameHashIffSameSample
          /\ StatOrReadFails(disk) => hashed'.result.kind = "error"]_vars

\* The same for the files whose modification times are not before the
\* epoch.
HashStableFromEpoch ==
    [][(HashStep /\ hashed.file.mtime >= 0 /\ hashed'.file.mtime >= 0) =>
          /\ SameHashIffSameSample
          /\ StatOrReadFails(disk) => hashed'.result.kind = "error"]_vars

\* A file of more than 16 KiB was hashed, changed in a byte that is not
\* sampled and in the mtime within the second, and is hashed again.
SecondHashDue ==
    /\ hashed.result.kind = "ok" /\ hashed.edits = 2
    /\ disk.kind = "file" /\ disk.size = 5
    /\ hashed.file.size = 5
    /\ hashed.file.content[3] # disk.content[3]
    /\ hashed.file.mtime = 0 /\ disk.mtime = 1

(* ------------------------------------------------------------------ *)
(* Properties of the limit under interleaved calls                      *)
(* ------------------------------------------------------------------ *)

\* C36: however calls of enqueue on distinct paths interleave, starting from
\* the empty queue no more of them return Started than there are free
\* slots: once all calls have returned, |running| <= max_parallel.
C36_ConcurrentCapacity ==
    (\A t \in Threads : ~InCall(t)) => RunningSize(Q) <= max_parallel

\* The queue after the step.
QNext == [queued |-> queued', running |-> running', max |-> max_parallel',
          cancelled |-> cancelled']

Listed(s) == {s.queued[i] : i \in DOMAIN s.queued} \cup s.running

\* The paths on which enqueue_job returns AlreadyExists.
Refused(q) ==
    {p \in Paths : EnqueueJob(q, p, 1, 1).res.kind = "AlreadyExists"}

\* C38 (snapshot faithfulness): the paths get_queue_status lists, queued and
\* running together, are the paths on which enqueue returns AlreadyExists,
\* and the running list is as long as the running map; a running job whose
\* cancel flag is set and that has not been completed is listed.
C38_SnapshotFaithfulness ==
    /\ Listed(GetQueueStatus(Q)) = Refused(Q)
    /\ Cardinality(GetQueueStatus(Q).running) = RunningSize(Q)

\* What holds of the snapshot: it lists no path that enqueue would accept,
\* the paths it leaves out are those of running jobs with the cancel flag set,
\* and its running list is as long as running_count.
SnapshotOfLiveJobs ==
    /\ Listed(GetQueueStatus(Q)) \subseteq Refused(Q)
    /\ \A p \in Refused(Q) \ Listed(GetQueueStatus(Q)) :
          Q.running[p] # NoJob /\ IsCancelled(Q, Q.running[p])
    /\ Cardinality(GetQueueStatus(Q).running) = RunningCount(Q)

\* The tasks that execute the workflow on a path.
ExecutingOn(p) == {f \in Slots : Executing(p, f)}

\* The command of the task runs complete_job in this step.
Completes(p, f) ==
    /\ workers[p][f].pc = "returned"
    /\ workers'[p][f].pc # "returned"

\* C39 (one worker per path): at most one task executes a workflow on a path
\* at a time, and the complete_job a command runs after its task takes out of
\* running only the job the task was spawned for, never a newer job of the
\* same path.
C39_OneWorkerPerPath ==
    [][\A p \in Paths :
          /\ Cardinality(ExecutingOn(p)) <= 1
          /\ \A f \in Slots :
                (Completes(p, f) /\ running[p] # NoJob) => running[p].flag = f]_vars

\* Two tasks execute on one path.
TwoWorkersOnPath == \E p \in Paths : Cardinality(ExecutingOn(p)) > 1

\* C40 (bulk stream-removal workers terminate): every task spawned by
\* bulk_remove_streams leaves its wait loop in the end and has called
\* complete_job, whatever the queue operations in between, cancel and
\* cancel_all of its queued job included.
C40_BulkWorkersTerminate ==
    \A p \in Paths : \A f \in Slots :
        (workers[p][f].pc = "wait") ~> (workers[p][f].pc \in {"none", "done"})

\* A task still waits for a job that cancel took out of queued.
WaitsForRemovedJob ==
    \E p \in Paths : \E f \in Slots :
        /\ workers[p][f].pc = "wait"
        /\ workers[p][f].removed
        /\ running[p] = NoJob

====
